---- MODULE Spec2Model ----
(***************************************************************************)
(* Larynx: the real-time transcription pipeline of main.py (LarynxApp),    *)
(* src/audio_capture.py (AudioCapture), src/vosk_engine.py (VoskEngine)    *)
(* and src/text_buffer.py (TextBuffer).                                    *)
(*                                                                         *)
(* Text is a sequence of one-character strings.  A frame is a record       *)
(* [id, sess]: id is its capture sequence number, sess the number of       *)
(* start_recording() calls made when the device delivered it.              *)
(* Every action is one atomic operation on a shared object (a queue        *)
(* operation, a TextBuffer method, a recognizer call, a flag access)       *)
(* together with the thread-local statements that follow it.               *)
(* A timeout (queue put/get, Thread.join) may expire at any moment.        *)
(***************************************************************************)
EXTENDS Naturals, Sequences, FiniteSets

(***************************************************************************)
(* Bounds of the model.  A specification fixes in its initial state how    *)
(* many commands the user issues and how many frames the device delivers   *)
(* (the variable budget); the queue capacities are scaled down from the    *)
(* code's 100 (frame queues) and 50 (update queue).                        *)
(***************************************************************************)
\* worker generations: start_recording() calls of the longest run (SpecRestart)
MaxSessions == 2
\* frames the device delivers under SpecRestart
RestartFrames == 1
\* start_recording() calls under Spec
SpecSessions == 1
\* frames the device delivers under Spec
MaxFrames == 2
\* clear_text() commands under Spec
MaxClears == 1
\* frames the device delivers under SpecFrames
PathFrames == 3
\* frames the device delivers under SpecUpdates
UpdateFrames == 1
\* clear_text() commands under SpecUpdates
UpdateClears == 1
\* frames the device delivers under SpecShutdown
ShutdownFrames == 1
\* shutdown() calls under SpecShutdown
MaxShutdowns == 2
\* direct TextBuffer calls under SpecBuffer
MaxCalls == 3
\* longest string under SpecFormat
MaxLen == 4
\* capacity of the two frame queues (queue.Queue(maxsize=100) in the code)
FrameQueueMax == 1
\* capacity of the update queue (queue.Queue(maxsize=50) in the code)
TextQueueMax == 1
\* threads that call the TextBuffer at once, and the calls they make together
LockThreads == 2
LockCalls == 3
\* frames of a session with failing reads and decodings, and the reads that fail
ErrorFrames == 2
MaxReadErrors == 1
\* direct calls of VoskEngine methods in a run
AdapterCalls == 4
\* frames read while the workers of two sessions run
OverlapFrames == 2
\* start and stop commands given in a state whose guard turns them away
GuardCalls == 2

(***************************************************************************)
(* Characters and the pure text functions of TextBuffer.                   *)
(***************************************************************************)
LowerChars == <<"a","b","c","d","e","f","g","h","i","j","k","l","m",
                "n","o","p","q","r","s","t","u","v","w","x","y","z">>
UpperChars == <<"A","B","C","D","E","F","G","H","I","J","K","L","M",
                "N","O","P","Q","R","S","T","U","V","W","X","Y","Z">>
Whitespace == {" ", "\t", "\n"}
Terminators == {".", "!", "?"}

IsLower(c) == \E i \in 1..26 : LowerChars[i] = c
\* str.upper() of one character
ToUpper(c) == IF IsLower(c) THEN UpperChars[CHOOSE i \in 1..26 : LowerChars[i] = c] ELSE c
\* str.lower() of one character
ToLower(c) ==
    IF \E i \in 1..26 : UpperChars[i] = c
    THEN LowerChars[CHOOSE i \in 1..26 : UpperChars[i] = c] ELSE c

\* str.strip(): leading and trailing whitespace removed
RECURSIVE LStrip(_)
LStrip(s) == IF s # <<>> /\ Head(s) \in Whitespace THEN LStrip(Tail(s)) ELSE s
RECURSIVE RStrip(_)
RStrip(s) ==
    IF s # <<>> /\ s[Len(s)] \in Whitespace THEN RStrip(SubSeq(s, 1, Len(s) - 1)) ELSE s
Strip(s) == RStrip(LStrip(s))

\* re.sub(r'\s+', ' ', s): every maximal run of whitespace becomes one space
RECURSIVE CollapseWs(_)
CollapseWs(s) ==
    IF s = <<>> THEN <<>>
    ELSE IF Head(s) \in Whitespace
         THEN <<" ">> \o CollapseWs(LStrip(s))
         ELSE <<Head(s)>> \o CollapseWs(Tail(s))

\* TextBuffer._clean_text
CleanText(text) == IF text = <<>> THEN <<>> ELSE CollapseWs(Strip(text))

\* position i of s follows a terminator and then only whitespace: the place
\* where ([.!?]\s*)([a-z]) puts its second group
RECURSIVE AfterTerminator(_, _)
AfterTerminator(s, i) ==
    IF i <= 1 THEN FALSE
    ELSE IF s[i - 1] \in Terminators THEN TRUE
    ELSE IF s[i - 1] \in Whitespace THEN AfterTerminator(s, i - 1)
    ELSE FALSE

\* a sentence rule that capitalizes nothing after a terminator
CapitalizeSentencesNone(s) == s

\* re.sub(r'([.!?]\s*)([a-z])', lambda m: m.group(1) + m.group(2).upper(), s)
CapitalizeSentences(s) ==
    [i \in 1..Len(s) |-> IF IsLower(s[i]) /\ AfterTerminator(s, i) THEN ToUpper(s[i]) ELSE s[i]]

\* a first-letter rule that swaps the case of the first character
CapitalizeFirstSwap(s) ==
    IF s = <<>> THEN <<>>
    ELSE <<IF IsLower(Head(s)) THEN ToUpper(Head(s)) ELSE ToLower(Head(s))>> \o Tail(s)

\* formatted[0].upper() + formatted[1:]
CapitalizeFirst(s) == IF s = <<>> THEN <<>> ELSE <<ToUpper(Head(s))>> \o Tail(s)

\* TextBuffer._format_text
FormatText(text) ==
    IF text = <<>> THEN <<>>
    ELSE CapitalizeSentences(CapitalizeFirst(CollapseWs(Strip(text))))

\* len(s.split()): the number of maximal runs of non-whitespace characters,
\* counted by their last characters
WordCount(s) ==
    Cardinality({i \in 1..Len(s) :
                    s[i] \notin Whitespace /\ (i = Len(s) \/ s[i + 1] \in Whitespace)})

\* s with every letter in lower case (used to compare texts up to capitalization)
CaseFold(s) == [i \in 1..Len(s) |-> ToLower(s[i])]
\* t occurs in s as a contiguous piece
Contains(s, t) ==
    \E i \in 0..Len(s) : i + Len(t) <= Len(s) /\ SubSeq(s, i + 1, i + Len(t)) = t


(***************************************************************************)
(* State.                                                                  *)
(***************************************************************************)
VARIABLES
    recording,          \* LarynxApp.recording
    is_recording_flag,  \* AudioCapture.is_recording_flag
    recording_thread,   \* AudioCapture.recording_thread: index of the newest capture thread, 0 = None
    capture_queue,      \* AudioCapture.audio_queue
    audio_queue,        \* LarynxApp.audio_queue
    text_queue,         \* LarynxApp.text_queue
    final_text,         \* TextBuffer.final_text
    partial_text,       \* TextBuffer.partial_text
    pending,            \* text the recognizer has decoded but not yet returned as final
    caller,             \* caller[0]: the GUI main thread; caller[i]: the i-th _asr_worker thread
    aud,                \* aud[i]: the i-th _audio_capture_worker thread
    rec,                \* rec[i]: the _recording_worker thread started by aud[i]
    after_queue,        \* Tk callbacks scheduled by root.after(0, update), oldest first: the text
                        \* each will show and the word_count of the update that scheduled it
    display,            \* content of gui.text_area
    gui_word_count,     \* gui.word_count
    gui_thread,         \* position of the _gui_update_worker thread: "loop" or "dead"
    session,            \* number of start_recording() calls that took effect
    framesRead,         \* number of frames the device has delivered
    clears,             \* number of clear_text() commands
    emitted,            \* number of non-empty hypotheses the recognizer has returned
    lastApplied,        \* [sess, seq] of the hypothesis applied last to the TextBuffer
    processed,          \* frames passed to process_audio, in order: [id, sess, at, err]
    queuedAtStop,       \* ids of the frames in audio_queue when stop_recording() was called
    bufferedAtStop,     \* the recognizer held unconfirmed text when stop_recording() was called
    lastFlush,          \* newest non-empty text get_final_result returned since the last start/clear
    openFailedIn,       \* session in which opening the device failed last, 0 = never
    timedOut,           \* a join of the last stop_recording() returned with its thread alive
    dropped,            \* number of updates _send_text_update gave up on queue.Full
    budget,             \* [starts, frames, clears, shutdowns, calls]: what the run may use, set by Init
    shutdown_event,     \* LarynxApp.shutdown_event is set
    is_active,          \* VoskEngine.is_active
    shutdowns,          \* number of shutdown() calls
    wasRecording,       \* LarynxApp.recording when shutdown() was first called
    discarded,          \* text the recognizer held when reset() dropped it
    heldAtReset,        \* a thread held a flushed text not yet in the TextBuffer when reset() ran
    call,               \* the last direct call of a TextBuffer or VoskEngine method, with the state before it
    recognizer,         \* VoskEngine.recognizer: the number of the KaldiRecognizer object, 0 = None
    model_loaded,       \* VoskEngine.model is not None
    allocated,          \* number of KaldiRecognizer objects created so far
    lock,               \* TextBuffer.lock: the threads inside a "with self.lock" block
    meth,               \* meth[t]: the TextBuffer method thread t is inside, statement by statement
    stable,             \* <<final_text, partial_text>> when the last TextBuffer method ended
    readErrors,         \* number of stream.read calls that raised
    flushAdds           \* number of get_final_result texts added to final_text in this session

vars == <<recording, is_recording_flag, recording_thread, capture_queue, audio_queue,
          text_queue, final_text, partial_text, pending, caller, aud, rec, after_queue,
          display, gui_word_count, gui_thread, session, framesRead, clears, emitted, lastApplied,
          processed, queuedAtStop, bufferedAtStop, lastFlush, openFailedIn, timedOut, dropped, budget,
          shutdown_event, is_active, shutdowns, wasRecording, discarded, heldAtReset, call,
          recognizer, model_loaded, allocated, lock, meth, stable, readErrors, flushAdds>>

bufferVars == <<final_text, partial_text>>
guiVars == <<after_queue, display, gui_word_count, gui_thread>>
captureVars == <<is_recording_flag, recording_thread, capture_queue, rec, framesRead, openFailedIn>>
lifeVars == <<shutdown_event, is_active, shutdowns, wasRecording, discarded, heldAtReset>>
adapterVars == <<recognizer, model_loaded, allocated>>
lockVars == <<lock, meth, stable>>
sideVars == <<adapterVars, lockVars, readErrors>>
\* everything but the TextBuffer and the record of the last direct call
pipelineVars == <<recording, captureVars, audio_queue, text_queue, pending, caller, aud,
                  guiVars, session, clears, emitted, lastApplied, processed, queuedAtStop,
                  bufferedAtStop, lastFlush, timedOut, dropped, budget, lifeVars,
                  adapterVars, lockVars, readErrors, flushAdds>>
stopGhosts == <<queuedAtStop, bufferedAtStop, timedOut, dropped, budget, lifeVars, call,
                sideVars, flushAdds>>

Workers == 1..MaxSessions
MAIN == 0

NoFrame == [id |-> 0, sess |-> 0]
\* flush: the text came from get_final_result
NoHyp == [text |-> <<>>, seq |-> 0, sess |-> 0, flush |-> FALSE]
\* wc0 is get_word_count() of the buffer state the text was taken from
NoUpdate == [kind |-> "none", text |-> <<>>, wc |-> 0, sess |-> 0, wc0 |-> 0]
\* no TextBuffer method has been called directly
NoCall == [op |-> "none", prev |-> "none", arg |-> <<>>, out |-> <<>>,
           final0 |-> <<>>, partial0 |-> <<>>, n |-> 0]
\* the placeholder gui.py puts into text_area ("Transcribed text will appear here...")
Placeholder == <<"T", ".", ".", ".">>

\* thread-local state of a thread that calls into TextBuffer / _send_text_update
Local(pc) == [pc |-> pc, ret |-> "none", hyp |-> NoHyp, upd |-> NoUpdate]
Producer(pc) == [pc |-> pc, data |-> NoFrame]

\* the word the recognizer decodes from frame f
Word(f) == <<LowerChars[f.id]>>
\* recognizer text after one more word
Heard(text, w) == IF text = <<>> THEN w ELSE text \o <<" ">> \o w

AliveAsr(i) == caller[i].pc \notin {"unborn", "dead"}
AliveAud(i) == aud[i].pc \notin {"unborn", "dead"}
AliveRec(i) == rec[i].pc \notin {"unborn", "dead", "failed"}

\* a thread that is in no TextBuffer method; seen is what its last read
\* found in <<final_text, partial_text>>, torn that it waited for the lock
\* while a writer stood between its two assignments
Outside == [op |-> "none", pc |-> "out", arg |-> <<>>, seen |-> <<>>, torn |-> FALSE]

\* the VoskEngine after _init_modules: the model is loaded and start() has
\* created the first recognizer
AdapterStarted ==
    /\ is_active = TRUE
    /\ recognizer = 1
    /\ model_loaded = TRUE
    /\ allocated = 1

\* the state after LarynxApp.__init__ and start() but for the VoskEngine
Assembled(b) ==
    /\ recording = FALSE
    /\ is_recording_flag = FALSE
    /\ recording_thread = 0
    /\ capture_queue = <<>>
    /\ audio_queue = <<>>
    /\ text_queue = <<>>
    /\ final_text = <<>>
    /\ partial_text = <<>>
    /\ pending = <<>>
    /\ caller = [t \in {MAIN} \cup Workers |-> IF t = MAIN THEN Local("idle") ELSE Local("unborn")]
    /\ aud = [i \in Workers |-> Producer("unborn")]
    /\ rec = [i \in Workers |-> Producer("unborn")]
    /\ after_queue = <<>>
    /\ display = Placeholder
    /\ gui_word_count = 0
    /\ gui_thread = "loop"
    /\ session = 0
    /\ framesRead = 0
    /\ clears = 0
    /\ emitted = 0
    /\ lastApplied = [sess |-> 0, seq |-> 0]
    /\ processed = <<>>
    /\ queuedAtStop = {}
    /\ bufferedAtStop = FALSE
    /\ lastFlush = <<>>
    /\ openFailedIn = 0
    /\ timedOut = FALSE
    /\ dropped = 0
    /\ budget = b
    /\ shutdown_event = FALSE
    /\ shutdowns = 0
    /\ wasRecording = FALSE
    /\ discarded = <<>>
    /\ heldAtReset = FALSE
    /\ lock = {}
    /\ meth = [t \in {MAIN} \cup Workers |-> Outside]
    /\ stable = <<<<>>, <<>>>>
    /\ readErrors = 0
    /\ flushAdds = 0

\* the state, but for the VoskEngine, after the n-th start_recording() when no
\* worker thread has run yet: those of the sessions before were not seen to end
\* by the joins of stop_recording() and never saw the flag cleared
SessionOpen(b, n) ==
    /\ recording = TRUE
    /\ is_recording_flag = FALSE
    /\ recording_thread = 0
    /\ capture_queue = <<>>
    /\ audio_queue = <<>>
    /\ text_queue = <<>>
    /\ final_text = <<>>
    /\ partial_text = <<>>
    /\ pending = <<>>
    /\ caller = [t \in {MAIN} \cup Workers |->
                    IF t = MAIN THEN Local("idle") ELSE IF t <= n THEN Local("loop") ELSE Local("unborn")]
    /\ aud = [i \in Workers |-> IF i <= n THEN Producer("start") ELSE Producer("unborn")]
    /\ rec = [i \in Workers |-> Producer("unborn")]
    /\ after_queue = <<>>
    /\ display = <<>>
    /\ gui_word_count = 0
    /\ gui_thread = "loop"
    /\ session = n
    /\ framesRead = 0
    /\ clears = 0
    /\ emitted = 0
    /\ lastApplied = [sess |-> 0, seq |-> 0]
    /\ processed = <<>>
    /\ queuedAtStop = {}
    /\ bufferedAtStop = FALSE
    /\ lastFlush = <<>>
    /\ openFailedIn = 0
    /\ timedOut = FALSE
    /\ dropped = 0
    /\ budget = b
    /\ shutdown_event = FALSE
    /\ shutdowns = 0
    /\ wasRecording = FALSE
    /\ discarded = <<>>
    /\ heldAtReset = FALSE
    /\ lock = {}
    /\ meth = [t \in {MAIN} \cup Workers |-> Outside]
    /\ stable = <<<<>>, <<>>>>
    /\ readErrors = 0
    /\ flushAdds = 0

\* the state after the first start_recording() but for the VoskEngine
InSession(b) == SessionOpen(b, 1)

\* the state after LarynxApp.__init__ and start(), with the run's budget b
Constructed(b) == Assembled(b) /\ AdapterStarted

\* the state in which the first start_recording() has returned: the flag is set,
\* both worker threads are started and have not run yet
Started(b) == InSession(b) /\ AdapterStarted

Init ==
    /\ Constructed([starts |-> SpecSessions, frames |-> MaxFrames, clears |-> MaxClears,
                    shutdowns |-> 0, calls |-> 0])
    /\ call = NoCall

(***************************************************************************)
(* TextBuffer methods (each runs under TextBuffer.lock, hence atomically). *)
(***************************************************************************)
\* add_partial_text: the new partial_text
AddPartialText(text) == IF text # <<>> THEN CleanText(text) ELSE <<>>
\* add_final_text without the separator: final_text += cleaned
AddFinalTextNoSpace(text) == IF text # <<>> THEN final_text \o CleanText(text) ELSE final_text
\* add_final_text that replaces the text: final_text = cleaned + " "
AddFinalTextReplaces(text) == IF text # <<>> THEN CleanText(text) \o <<" ">> ELSE final_text
\* add_final_text: the new final_text
AddFinalText(text) == IF text # <<>> THEN final_text \o CleanText(text) \o <<" ">> ELSE final_text
\* add_final_text that leaves partial_text alone
PartialKept(text) == partial_text
\* add_final_text: the new partial_text (cleared inside "if text:")
PartialAfterFinal(text) == IF text # <<>> THEN <<>> ELSE partial_text
\* get_full_text
GetFullText == FormatText(Strip(final_text \o partial_text))
\* get_word_count
GetWordCount == WordCount(final_text)

\* queue.Queue.full()
Full(q, maxsize) == Len(q) >= maxsize

(***************************************************************************)
(* GUI main thread: start_recording, stop_recording, clear_text and the    *)
(* Tk callbacks scheduled with root.after.                                 *)
(***************************************************************************)
\* start_recording with self.recording already set: returns at once
StartRecordingNoop ==
    /\ caller[MAIN].pc = "idle"
    /\ recording
    /\ UNCHANGED vars

\* start_recording up to _clear_queues: the flag, text_buffer.clear(), add_partial_text("")
StartRecording ==
    /\ caller[MAIN].pc = "idle"
    /\ ~recording
    /\ session < budget.starts
    /\ recording' = TRUE
    /\ session' = session + 1
    /\ final_text' = <<>>
    /\ partial_text' = AddPartialText(<<>>)
    /\ caller' = [caller EXCEPT ![MAIN].pc = "clear_audio"]
    /\ lastFlush' = <<>>
    /\ queuedAtStop' = {}
    /\ bufferedAtStop' = FALSE
    /\ timedOut' = FALSE
    /\ UNCHANGED <<captureVars, audio_queue, text_queue, pending, aud, guiVars, clears,
                   emitted, lastApplied, processed, dropped, budget, lifeVars, call, sideVars>>
    /\ flushAdds' = 0

\* _clear_queues, first loop: one iteration of "while not audio_queue.empty(): get_nowait()"
ClearAudioQueue ==
    /\ caller[MAIN].pc = "clear_audio"
    /\ IF audio_queue = <<>>
       THEN /\ caller' = [caller EXCEPT ![MAIN].pc = "clear_text"]
            /\ UNCHANGED audio_queue
       ELSE /\ audio_queue' = Tail(audio_queue)
            /\ UNCHANGED caller
    /\ UNCHANGED <<recording, captureVars, text_queue, bufferVars, pending, aud, guiVars,
                   session, clears, emitted, lastApplied, processed, stopGhosts, lastFlush>>

\* _clear_queues, second loop: one iteration of "while not text_queue.empty(): get_nowait()"
ClearTextQueue ==
    /\ caller[MAIN].pc = "clear_text"
    /\ IF text_queue = <<>>
       THEN /\ caller' = [caller EXCEPT ![MAIN].pc = "spawn"]
            /\ UNCHANGED text_queue
       ELSE /\ text_queue' = Tail(text_queue)
            /\ UNCHANGED caller
    /\ UNCHANGED <<recording, captureVars, audio_queue, bufferVars, pending, aud, guiVars,
                   session, clears, emitted, lastApplied, processed, stopGhosts, lastFlush>>

\* start_recording, the rest: the recognizer is active since _init_modules, so
\* vosk_engine.start() is skipped; both worker threads are started;
\* gui.start_recording() removes the placeholder text
SpawnWorkers ==
    /\ caller[MAIN].pc = "spawn"
    /\ aud' = [aud EXCEPT ![session] = Producer("start")]
    /\ caller' = [caller EXCEPT ![MAIN].pc = "idle", ![session] = Local("loop")]
    /\ display' = IF display = Placeholder THEN <<>> ELSE display
    /\ UNCHANGED <<recording, captureVars, audio_queue, text_queue, bufferVars, pending,
                   after_queue, gui_word_count, gui_thread, session, clears, emitted,
                   lastApplied,
                   processed, stopGhosts, lastFlush>>

\* stop_recording with self.recording clear: returns at once
StopRecordingNoop ==
    /\ caller[MAIN].pc = "idle"
    /\ ~recording
    /\ UNCHANGED vars

\* stop_recording: the flag, and audio_capture.stop_recording() up to its join
\* (which returns at once when is_recording_flag is clear)
StopRecording ==
    /\ caller[MAIN].pc = "idle"
    /\ recording
    /\ recording' = FALSE
    /\ is_recording_flag' = FALSE
    /\ caller' = [caller EXCEPT ![MAIN].pc = IF is_recording_flag THEN "join_capture" ELSE "join"]
    /\ queuedAtStop' = {audio_queue[k].id : k \in 1..Len(audio_queue)}
    /\ bufferedAtStop' = (pending # <<>>)
    /\ timedOut' = FALSE
    /\ UNCHANGED <<recording_thread, capture_queue, rec, framesRead, openFailedIn, audio_queue,
                   text_queue, bufferVars, pending, aud, guiVars, session, clears, emitted,
                   lastApplied, processed, lastFlush, dropped, budget, lifeVars, call, sideVars, flushAdds>>

\* audio_capture.stop_recording: recording_thread.join(timeout=2.0), then _cleanup().
\* The join returns when the thread has ended or when the timeout expires.
JoinCapture ==
    /\ caller[MAIN].pc = "join_capture"
    /\ caller' = [caller EXCEPT ![MAIN].pc = "join"]
    /\ timedOut' = (timedOut \/ (recording_thread # 0 /\ AliveRec(recording_thread)))
    /\ UNCHANGED <<recording, captureVars, audio_queue, text_queue, bufferVars, pending, aud,
                   guiVars, session, clears, emitted, lastApplied, processed, queuedAtStop,
                   bufferedAtStop, lastFlush, dropped, budget, lifeVars, call, sideVars, flushAdds>>

\* stop_recording: audio_thread.join(timeout=2.0); asr_thread.join(timeout=2.0).
\* Next comes _finalize_transcription, and after it only gui.stop_recording().
JoinWorkers ==
    /\ caller[MAIN].pc = "join"
    /\ caller' = [caller EXCEPT ![MAIN].pc = "fin_get", ![MAIN].ret = "idle"]
    /\ timedOut' = (timedOut \/ AliveAud(session) \/ AliveAsr(session))
    /\ UNCHANGED <<recording, captureVars, audio_queue, text_queue, bufferVars, pending, aud,
                   guiVars, session, clears, emitted, lastApplied, processed, queuedAtStop,
                   bufferedAtStop, lastFlush, dropped, budget, lifeVars, call, sideVars, flushAdds>>

\* clear_text with a clear() that resets final_text only
ClearTextKeepsPartial ==
    /\ caller[MAIN].pc = "idle"
    /\ clears < budget.clears
    /\ clears' = clears + 1
    /\ final_text' = <<>>
    /\ caller' = [caller EXCEPT ![MAIN].pc = "snap_wc", ![MAIN].ret = "idle",
                                ![MAIN].upd = [kind |-> "clear", text |-> <<>>, wc |-> 0,
                                               sess |-> session, wc0 |-> 0]]
    /\ lastFlush' = <<>>
    /\ UNCHANGED <<recording, captureVars, audio_queue, text_queue, partial_text, pending, aud,
                   guiVars, session, emitted, lastApplied, processed, stopGhosts>>

\* clear_text: text_buffer.clear(), then _send_text_update('clear', "")
ClearText ==
    /\ caller[MAIN].pc = "idle"
    /\ clears < budget.clears
    /\ clears' = clears + 1
    /\ final_text' = <<>>
    /\ partial_text' = <<>>
    /\ caller' = [caller EXCEPT ![MAIN].pc = "snap_wc", ![MAIN].ret = "idle",
                                ![MAIN].upd = [kind |-> "clear", text |-> <<>>, wc |-> 0,
                                               sess |-> session, wc0 |-> 0]]
    /\ lastFlush' = <<>>
    /\ UNCHANGED <<recording, captureVars, audio_queue, text_queue, pending, aud, guiVars,
                   session, emitted, lastApplied, processed, stopGhosts>>

\* the callback update() of gui.update_text_display, run by the Tk main loop
RunAfterCallback ==
    /\ caller[MAIN].pc = "idle"
    /\ after_queue # <<>>
    /\ display' = Head(after_queue).text
    /\ gui_word_count' = IF Strip(Head(after_queue).text) # <<>>
                         THEN WordCount(Head(after_queue).text) ELSE 0
    /\ after_queue' = Tail(after_queue)
    /\ UNCHANGED <<recording, captureVars, audio_queue, text_queue, bufferVars, pending, caller,
                   aud, gui_thread, session, clears, emitted, lastApplied, processed, stopGhosts,
                   lastFlush>>

(***************************************************************************)
(* shutdown(), called by start() when the Tk main loop has ended, and      *)
(* callable again after it has returned.                                   *)
(***************************************************************************)
\* shutdown: running = False; recording = False; shutdown_event.set().
\* "if self.recording" then reads False, so stop_recording() is not called.
Shutdown ==
    /\ caller[MAIN].pc \in {"idle", "down"}
    /\ shutdowns < budget.shutdowns
    /\ shutdowns' = shutdowns + 1
    /\ wasRecording' = IF shutdowns = 0 THEN recording ELSE wasRecording
    /\ recording' = FALSE
    /\ shutdown_event' = TRUE
    /\ caller' = [caller EXCEPT ![MAIN].pc = "sd_join"]
    /\ timedOut' = IF shutdowns = 0 /\ recording THEN FALSE ELSE timedOut
    /\ UNCHANGED <<captureVars, audio_queue, text_queue, bufferVars, pending, aud, guiVars,
                   session, clears, emitted, lastApplied, processed, queuedAtStop,
                   bufferedAtStop, lastFlush, dropped, budget, is_active, discarded,
                   heldAtReset, call, sideVars, flushAdds>>

\* shutdown: for audio_thread, asr_thread, gui_update_thread: join(timeout=2.0)
\* when the thread is alive.  Each join returns when its thread has ended or
\* when the timeout expires.
ShutdownJoin ==
    /\ caller[MAIN].pc = "sd_join"
    /\ caller' = [caller EXCEPT ![MAIN].pc = "sd_capture"]
    /\ timedOut' = (timedOut \/ (session >= 1 /\ (AliveAud(session) \/ AliveAsr(session))))
    /\ UNCHANGED <<recording, captureVars, audio_queue, text_queue, bufferVars, pending, aud,
                   guiVars, session, clears, emitted, lastApplied, processed, queuedAtStop,
                   bufferedAtStop, lastFlush, dropped, budget, lifeVars, call, sideVars, flushAdds>>

\* shutdown: audio_capture.stop_recording() up to its join (it returns at once
\* when is_recording_flag is clear)
ShutdownStopCapture ==
    /\ caller[MAIN].pc = "sd_capture"
    /\ is_recording_flag' = FALSE
    /\ caller' = [caller EXCEPT ![MAIN].pc = IF is_recording_flag THEN "sd_join_capture" ELSE "sd_reset"]
    /\ UNCHANGED <<recording, recording_thread, capture_queue, rec, framesRead, openFailedIn,
                   audio_queue, text_queue, bufferVars, pending, aud, guiVars, session, clears,
                   emitted, lastApplied, processed, stopGhosts, lastFlush>>

\* audio_capture.stop_recording inside shutdown: recording_thread.join(timeout=2.0), _cleanup()
ShutdownJoinCapture ==
    /\ caller[MAIN].pc = "sd_join_capture"
    /\ caller' = [caller EXCEPT ![MAIN].pc = "sd_reset"]
    /\ timedOut' = (timedOut \/ (recording_thread # 0 /\ AliveRec(recording_thread)))
    /\ UNCHANGED <<recording, captureVars, audio_queue, text_queue, bufferVars, pending, aud,
                   guiVars, session, clears, emitted, lastApplied, processed, queuedAtStop,
                   bufferedAtStop, lastFlush, dropped, budget, lifeVars, call, sideVars, flushAdds>>

\* shutdown: vosk_engine.reset() drops the recognizer with the text it holds
\* and clears is_active; shutdown returns
ShutdownReset ==
    /\ caller[MAIN].pc = "sd_reset"
    /\ is_active' = FALSE
    /\ recognizer' = 0
    /\ pending' = <<>>
    /\ discarded' = IF discarded # <<>> THEN discarded ELSE Strip(pending)
    /\ heldAtReset' = (heldAtReset \/ \E t \in Workers : caller[t].pc = "add_final")
    /\ caller' = [caller EXCEPT ![MAIN].pc = "down"]
    /\ UNCHANGED <<recording, captureVars, audio_queue, text_queue, bufferVars, aud, guiVars,
                   session, clears, emitted, lastApplied, processed, queuedAtStop,
                   bufferedAtStop, timedOut, lastFlush, dropped, budget, shutdown_event,
                   shutdowns, wasRecording, call, model_loaded, allocated, lockVars,
                   readErrors, flushAdds>>

(***************************************************************************)
(* _finalize_transcription and _send_text_update, run by thread t: the     *)
(* main thread inside stop_recording, an ASR worker after its loop.        *)
(***************************************************************************)
\* where thread t goes when the routine it runs has returned
Return(t) == [caller[t] EXCEPT !.pc = caller[t].ret, !.ret = "none", !.hyp = NoHyp, !.upd = NoUpdate]

\* _finalize_transcription: final_result = vosk_engine.get_final_result().
\* recognizer.Result() hands out the buffered text and leaves none behind;
\* with is_active clear get_final_result returns "" at once.
GetFinalResult(t) ==
    /\ caller[t].pc = "fin_get"
    /\ pending' = IF is_active THEN <<>> ELSE pending
    /\ IF is_active /\ Strip(pending) # <<>>
       THEN /\ caller' = [caller EXCEPT ![t].pc = "add_final",
                             ![t].hyp = [text |-> Strip(pending), seq |-> emitted + 1,
                                           sess |-> session, flush |-> TRUE]]
            /\ emitted' = emitted + 1
            /\ lastFlush' = Strip(pending)
       ELSE /\ caller' = [caller EXCEPT ![t] = Return(t)]
            /\ UNCHANGED <<emitted, lastFlush>>
    /\ UNCHANGED <<recording, captureVars, audio_queue, text_queue, bufferVars, aud, guiVars,
                   session, clears, lastApplied, processed, stopGhosts>>

\* get_final_result called by threads t and u at once.  VoskEngine holds no
\* lock and both calls run recognizer.Result() on the same recognizer, a race
\* inside the recognizer: besides the outcomes of one call after the other
\* (GetFinalResult), both calls may return the buffered text.
GetFinalResultTogether(t) ==
    /\ caller[t].pc = "fin_get"
    /\ is_active
    /\ Strip(pending) # <<>>
    /\ \E u \in ({MAIN} \cup Workers) \ {t} :
          /\ caller[u].pc = "fin_get"
          /\ caller' = [caller EXCEPT
                 ![t].pc = "add_final",
                 ![t].hyp = [text |-> Strip(pending), seq |-> emitted + 1,
                             sess |-> session, flush |-> TRUE],
                 ![u].pc = "add_final",
                 ![u].hyp = [text |-> Strip(pending), seq |-> emitted + 2,
                             sess |-> session, flush |-> TRUE]]
    /\ pending' = <<>>
    /\ emitted' = emitted + 2
    /\ lastFlush' = Strip(pending)
    /\ UNCHANGED <<recording, captureVars, audio_queue, text_queue, bufferVars, aud, guiVars,
                   session, clears, lastApplied, processed, stopGhosts>>

\* text_buffer.add_final_text(text) with the text thread t holds
ApplyFinal(t) ==
    /\ caller[t].pc = "add_final"
    /\ final_text' = AddFinalText(caller[t].hyp.text)
    /\ partial_text' = PartialAfterFinal(caller[t].hyp.text)
    /\ lastApplied' = [sess |-> caller[t].hyp.sess, seq |-> caller[t].hyp.seq]
    /\ caller' = [caller EXCEPT ![t].pc = "snap_text", ![t].hyp = NoHyp, ![t].upd.kind = "final"]
    /\ flushAdds' = IF caller[t].hyp.flush THEN flushAdds + 1 ELSE flushAdds
    /\ UNCHANGED <<recording, captureVars, audio_queue, text_queue, pending, aud, guiVars,
                   session, clears, emitted, processed, queuedAtStop, bufferedAtStop, timedOut,
                   dropped, budget, lifeVars, call, sideVars, lastFlush>>

\* text_buffer.add_partial_text(text) with the text thread t holds
ApplyPartial(t) ==
    /\ caller[t].pc = "add_partial"
    /\ partial_text' = AddPartialText(caller[t].hyp.text)
    /\ lastApplied' = [sess |-> caller[t].hyp.sess, seq |-> caller[t].hyp.seq]
    /\ caller' = [caller EXCEPT ![t].pc = "snap_text", ![t].hyp = NoHyp, ![t].upd.kind = "partial"]
    /\ UNCHANGED <<recording, captureVars, audio_queue, text_queue, final_text, pending, aud,
                   guiVars, session, clears, emitted, processed, stopGhosts, lastFlush>>

\* the argument of _send_text_update: self.text_buffer.get_full_text()
SnapshotText(t) ==
    /\ caller[t].pc = "snap_text"
    /\ caller' = [caller EXCEPT ![t].pc = "snap_wc", ![t].upd.text = GetFullText,
                                ![t].upd.sess = session, ![t].upd.wc0 = GetWordCount]
    /\ UNCHANGED <<recording, captureVars, audio_queue, text_queue, bufferVars, pending, aud,
                   guiVars, session, clears, emitted, lastApplied, processed, stopGhosts,
                   lastFlush>>

\* _send_text_update: 'word_count': self.text_buffer.get_word_count()
SnapshotWordCount(t) ==
    /\ caller[t].pc = "snap_wc"
    /\ caller' = [caller EXCEPT ![t].pc = "put", ![t].upd.wc = GetWordCount]
    /\ UNCHANGED <<recording, captureVars, audio_queue, text_queue, bufferVars, pending, aud,
                   guiVars, session, clears, emitted, lastApplied, processed, stopGhosts,
                   lastFlush>>

\* _send_text_update with the frame queues' policy: on queue.Full the oldest
\* update is removed and the new one enqueued
SendPutDropOldest(t) ==
    /\ caller[t].pc = "put"
    /\ text_queue' = IF Full(text_queue, TextQueueMax)
                     THEN Append(Tail(text_queue), caller[t].upd)
                     ELSE Append(text_queue, caller[t].upd)
    /\ caller' = [caller EXCEPT ![t] = Return(t)]
    /\ UNCHANGED <<recording, captureVars, audio_queue, bufferVars, pending, aud, guiVars,
                   session, clears, emitted, lastApplied, processed, stopGhosts, lastFlush>>

\* _send_text_update: text_queue.put(update, timeout=0.1); queue.Full is passed over
SendPut(t) ==
    /\ caller[t].pc = "put"
    /\ IF Full(text_queue, TextQueueMax)
       THEN /\ dropped' = dropped + 1
            /\ UNCHANGED text_queue
       ELSE /\ text_queue' = Append(text_queue, caller[t].upd)
            /\ UNCHANGED dropped
    /\ caller' = [caller EXCEPT ![t] = Return(t)]
    /\ UNCHANGED <<recording, captureVars, audio_queue, bufferVars, pending, aud, guiVars,
                   session, clears, emitted, lastApplied, processed, queuedAtStop,
                   bufferedAtStop, timedOut, budget, lifeVars, call, sideVars, flushAdds, lastFlush>>

(***************************************************************************)
(* _asr_worker, thread i.                                                  *)
(***************************************************************************)
\* the loop condition fails: the worker leaves the loop and finalizes
AsrExit(i) ==
    /\ caller[i].pc = "loop"
    /\ ~recording \/ shutdown_event
    /\ caller' = [caller EXCEPT ![i].pc = "fin_get", ![i].ret = "dead"]
    /\ UNCHANGED <<recording, captureVars, audio_queue, text_queue, bufferVars, pending, aud,
                   guiVars, session, clears, emitted, lastApplied, processed, stopGhosts,
                   lastFlush>>

\* audio_queue.get(timeout=0.1) raises queue.Empty: continue
AsrIdle(i) ==
    /\ caller[i].pc = "loop"
    /\ recording /\ ~shutdown_event
    /\ audio_queue = <<>>
    /\ UNCHANGED vars

\* what process_audio returns for the frame: AcceptWaveform decodes the word
\* of the frame and either reports an utterance end (final) or not (partial);
\* a frame of silence leaves the buffered text as it is (partial)
\* with is_active clear process_audio returns no result and touches nothing (inactive)
Outcomes == IF is_active THEN {"partial", "final", "silence"} ELSE {"inactive"}
ResultText(f, o) ==
    IF o = "inactive" THEN <<>>
    ELSE IF o = "silence" THEN Strip(pending) ELSE Strip(Heard(pending, Word(f)))
PendingAfter(f, o) ==
    IF o \in {"silence", "inactive"} THEN pending
    ELSE IF o = "final" THEN <<>> ELSE Heard(pending, Word(f))

\* one iteration: chunk = audio_queue.get(timeout=0.1); results = process_audio(chunk);
\* an empty result text applies nothing ("if results['partial']", "if results['final']")
AsrProcess(i) ==
    /\ caller[i].pc = "loop"
    /\ recording /\ ~shutdown_event
    /\ audio_queue # <<>>
    /\ audio_queue' = Tail(audio_queue)
    /\ processed' = Append(processed, [id |-> Head(audio_queue).id,
                                       sess |-> Head(audio_queue).sess, at |-> session,
                                       err |-> FALSE])
    /\ \E o \in Outcomes :
          /\ pending' = PendingAfter(Head(audio_queue), o)
          /\ IF ResultText(Head(audio_queue), o) # <<>>
             THEN /\ caller' = [caller EXCEPT
                         ![i].pc = IF o = "final" THEN "add_final" ELSE "add_partial",
                         ![i].ret = "loop",
                         ![i].hyp = [text |-> ResultText(Head(audio_queue), o),
                                     seq |-> emitted + 1, sess |-> session,
                                     flush |-> FALSE]]
                  /\ emitted' = emitted + 1
             ELSE UNCHANGED <<caller, emitted>>
    /\ UNCHANGED <<recording, captureVars, text_queue, bufferVars, aud, guiVars, session,
                   clears, lastApplied, stopGhosts, lastFlush>>

\* one iteration in which AcceptWaveform or the parsing of its result raises:
\* process_audio prints "Vosk processing error" and returns no result, so the
\* worker applies nothing; what the recognizer keeps of the frame is not known
AsrProcessError(i) ==
    /\ caller[i].pc = "loop"
    /\ recording /\ ~shutdown_event
    /\ audio_queue # <<>>
    /\ is_active
    /\ audio_queue' = Tail(audio_queue)
    /\ processed' = Append(processed, [id |-> Head(audio_queue).id,
                                       sess |-> Head(audio_queue).sess, at |-> session,
                                       err |-> TRUE])
    /\ pending' \in {pending, Heard(pending, Word(Head(audio_queue)))}
    /\ UNCHANGED <<recording, captureVars, text_queue, bufferVars, caller, emitted, aud, guiVars,
                   session, clears, lastApplied, stopGhosts, lastFlush>>

(***************************************************************************)
(* _gui_update_worker.                                                     *)
(***************************************************************************)
\* update = text_queue.get(timeout=0.1); gui.update_text_display(update['text'])
\* schedules the callback; gui.word_count = update['word_count']
GuiUpdate ==
    /\ gui_thread = "loop"
    /\ ~shutdown_event
    /\ text_queue # <<>>
    /\ text_queue' = Tail(text_queue)
    /\ after_queue' = Append(after_queue, [text |-> Head(text_queue).text,
                                           wc |-> Head(text_queue).wc])
    /\ gui_word_count' = Head(text_queue).wc
    /\ UNCHANGED <<recording, captureVars, audio_queue, bufferVars, pending, caller, aud,
                   display, gui_thread, session, clears, emitted, lastApplied, processed,
                   stopGhosts, lastFlush>>

\* the loop condition "not self.shutdown_event.is_set()" fails: the thread ends
GuiExit ==
    /\ gui_thread = "loop"
    /\ shutdown_event
    /\ gui_thread' = "dead"
    /\ UNCHANGED <<recording, captureVars, audio_queue, text_queue, bufferVars, pending, caller,
                   aud, after_queue, display, gui_word_count, session, clears, emitted,
                   lastApplied, processed, stopGhosts, lastFlush>>


(***************************************************************************)
(* _audio_capture_worker, thread i.                                        *)
(***************************************************************************)
\* audio_capture.start_recording(): returns at once when is_recording_flag is
\* set, else sets it and starts a _recording_worker thread
AudStart(i) ==
    /\ aud[i].pc = "start"
    /\ aud' = [aud EXCEPT ![i].pc = "loop"]
    /\ IF is_recording_flag
       THEN UNCHANGED <<is_recording_flag, recording_thread, rec>>
       ELSE /\ is_recording_flag' = TRUE
            /\ recording_thread' = i
            /\ rec' = [rec EXCEPT ![i] = Producer("open")]
    /\ UNCHANGED <<recording, capture_queue, framesRead, openFailedIn, audio_queue, text_queue,
                   bufferVars, pending, caller, guiVars, session, clears, emitted, lastApplied,
                   processed, stopGhosts, lastFlush>>

\* the loop condition fails: the thread ends
AudExit(i) ==
    /\ aud[i].pc = "loop"
    /\ ~recording \/ shutdown_event
    /\ aud' = [aud EXCEPT ![i] = Producer("dead")]
    /\ UNCHANGED <<recording, captureVars, audio_queue, text_queue, bufferVars, pending, caller,
                   guiVars, session, clears, emitted, lastApplied, processed, stopGhosts,
                   lastFlush>>

\* get_audio_chunk(timeout=0.1) returns None
AudIdle(i) ==
    /\ aud[i].pc = "loop"
    /\ recording /\ ~shutdown_event
    /\ capture_queue = <<>>
    /\ UNCHANGED vars

\* chunk = audio_capture.get_audio_chunk(timeout=0.1)
AudGet(i) ==
    /\ aud[i].pc = "loop"
    /\ recording /\ ~shutdown_event
    /\ capture_queue # <<>>
    /\ capture_queue' = Tail(capture_queue)
    /\ aud' = [aud EXCEPT ![i] = [pc |-> "put", data |-> Head(capture_queue)]]
    /\ UNCHANGED <<recording, is_recording_flag, recording_thread, rec, framesRead,
                   openFailedIn, audio_queue, text_queue, bufferVars, pending, caller, guiVars,
                   session, clears, emitted, lastApplied, processed, stopGhosts, lastFlush>>

\* audio_queue.put(chunk) on a queue created without maxsize: always enqueues
AudPutUnbounded(i) ==
    /\ aud[i].pc = "put"
    /\ audio_queue' = Append(audio_queue, aud[i].data)
    /\ aud' = [aud EXCEPT ![i] = Producer("loop")]
    /\ UNCHANGED <<recording, captureVars, text_queue, bufferVars, pending, caller, guiVars,
                   session, clears, emitted, lastApplied, processed, stopGhosts, lastFlush>>

\* audio_queue.put(chunk, timeout=0.1): enqueues, or raises queue.Full on a full queue
AudPut(i) ==
    /\ aud[i].pc = "put"
    /\ IF Full(audio_queue, FrameQueueMax)
       THEN /\ aud' = [aud EXCEPT ![i].pc = "evict"]
            /\ UNCHANGED audio_queue
       ELSE /\ audio_queue' = Append(audio_queue, aud[i].data)
            /\ aud' = [aud EXCEPT ![i] = Producer("loop")]
    /\ UNCHANGED <<recording, captureVars, text_queue, bufferVars, pending, caller, guiVars,
                   session, clears, emitted, lastApplied, processed, stopGhosts, lastFlush>>

\* except queue.Full: audio_queue.get_nowait(); queue.Empty ends in "except: pass"
AudEvict(i) ==
    /\ aud[i].pc = "evict"
    /\ IF audio_queue = <<>>
       THEN /\ aud' = [aud EXCEPT ![i] = Producer("loop")]
            /\ UNCHANGED audio_queue
       ELSE /\ audio_queue' = Tail(audio_queue)
            /\ aud' = [aud EXCEPT ![i].pc = "put_again"]
    /\ UNCHANGED <<recording, captureVars, text_queue, bufferVars, pending, caller, guiVars,
                   session, clears, emitted, lastApplied, processed, stopGhosts, lastFlush>>

\* audio_queue.put(chunk, timeout=0.1) after the eviction; queue.Full ends in "except: pass"
AudPutAgain(i) ==
    /\ aud[i].pc = "put_again"
    /\ audio_queue' = IF Full(audio_queue, FrameQueueMax) THEN audio_queue
                      ELSE Append(audio_queue, aud[i].data)
    /\ aud' = [aud EXCEPT ![i] = Producer("loop")]
    /\ UNCHANGED <<recording, captureVars, text_queue, bufferVars, pending, caller, guiVars,
                   session, clears, emitted, lastApplied, processed, stopGhosts, lastFlush>>

(***************************************************************************)
(* AudioCapture._recording_worker, thread i.                               *)
(***************************************************************************)
\* pyaudio.PyAudio().open(...) succeeds
RecOpen(i) ==
    /\ rec[i].pc = "open"
    /\ rec' = [rec EXCEPT ![i].pc = "loop"]
    /\ UNCHANGED <<recording, is_recording_flag, recording_thread, capture_queue, framesRead,
                   openFailedIn, audio_queue, text_queue, bufferVars, pending, caller, aud,
                   guiVars, session, clears, emitted, lastApplied, processed, stopGhosts,
                   lastFlush>>

\* pyaudio.PyAudio().open(...) raises: "Recording thread error" is printed,
\* _cleanup() runs and the thread ends
RecOpenFails(i) ==
    /\ rec[i].pc = "open"
    /\ rec' = [rec EXCEPT ![i].pc = "failed"]
    /\ openFailedIn' = session
    /\ UNCHANGED <<recording, is_recording_flag, recording_thread, capture_queue, framesRead,
                   audio_queue, text_queue, bufferVars, pending, caller, aud, guiVars, session,
                   clears, emitted, lastApplied, processed, stopGhosts, lastFlush>>

\* the loop condition fails: _cleanup() runs and the thread ends
RecExit(i) ==
    /\ rec[i].pc = "loop"
    /\ ~is_recording_flag
    /\ rec' = [rec EXCEPT ![i] = Producer("dead")]
    /\ UNCHANGED <<recording, is_recording_flag, recording_thread, capture_queue, framesRead,
                   openFailedIn, audio_queue, text_queue, bufferVars, pending, caller, aud,
                   guiVars, session, clears, emitted, lastApplied, processed, stopGhosts,
                   lastFlush>>

\* stream.read raises and the exception ends the thread
RecReadErrorEnds(i) ==
    /\ rec[i].pc = "loop"
    /\ is_recording_flag
    /\ readErrors < MaxReadErrors
    /\ readErrors' = readErrors + 1
    /\ rec' = [rec EXCEPT ![i] = Producer("dead")]
    /\ UNCHANGED <<recording, is_recording_flag, recording_thread, capture_queue, framesRead,
                   openFailedIn, audio_queue, text_queue, bufferVars, pending, caller, aud,
                   guiVars, session, clears, emitted, lastApplied, processed, queuedAtStop,
                   bufferedAtStop, timedOut, dropped, budget, lifeVars, call, adapterVars,
                   lockVars, flushAdds, lastFlush>>

\* stream.read raises: "Audio read error" is printed, the thread sleeps 0.01 s
\* and goes back to the loop condition
RecReadError(i) ==
    /\ rec[i].pc = "loop"
    /\ is_recording_flag
    /\ readErrors < MaxReadErrors
    /\ readErrors' = readErrors + 1
    /\ UNCHANGED <<recording, is_recording_flag, recording_thread, capture_queue, framesRead,
                   openFailedIn, rec, audio_queue, text_queue, bufferVars, pending, caller, aud,
                   guiVars, session, clears, emitted, lastApplied, processed, queuedAtStop,
                   bufferedAtStop, timedOut, dropped, budget, lifeVars, call, adapterVars,
                   lockVars, flushAdds, lastFlush>>

\* data = stream.read(chunk_size, exception_on_overflow=False)
RecRead(i) ==
    /\ rec[i].pc = "loop"
    /\ is_recording_flag
    /\ framesRead < budget.frames
    /\ framesRead' = framesRead + 1
    /\ rec' = [rec EXCEPT ![i] = [pc |-> "put", data |-> [id |-> framesRead + 1, sess |-> session]]]
    /\ UNCHANGED <<recording, is_recording_flag, recording_thread, capture_queue, openFailedIn,
                   audio_queue, text_queue, bufferVars, pending, caller, aud, guiVars, session,
                   clears, emitted, lastApplied, processed, stopGhosts, lastFlush>>

\* audio_queue.put(data, timeout=0.1) on the capture queue
RecPut(i) ==
    /\ rec[i].pc = "put"
    /\ IF Full(capture_queue, FrameQueueMax)
       THEN /\ rec' = [rec EXCEPT ![i].pc = "evict"]
            /\ UNCHANGED capture_queue
       ELSE /\ capture_queue' = Append(capture_queue, rec[i].data)
            /\ rec' = [rec EXCEPT ![i] = Producer("loop")]
    /\ UNCHANGED <<recording, is_recording_flag, recording_thread, framesRead, openFailedIn,
                   audio_queue, text_queue, bufferVars, pending, caller, aud, guiVars, session,
                   clears, emitted, lastApplied, processed, stopGhosts, lastFlush>>

\* except queue.Full: audio_queue.get_nowait(); queue.Empty ends in "except: pass"
RecEvict(i) ==
    /\ rec[i].pc = "evict"
    /\ IF capture_queue = <<>>
       THEN /\ rec' = [rec EXCEPT ![i] = Producer("loop")]
            /\ UNCHANGED capture_queue
       ELSE /\ capture_queue' = Tail(capture_queue)
            /\ rec' = [rec EXCEPT ![i].pc = "put_again"]
    /\ UNCHANGED <<recording, is_recording_flag, recording_thread, framesRead, openFailedIn,
                   audio_queue, text_queue, bufferVars, pending, caller, aud, guiVars, session,
                   clears, emitted, lastApplied, processed, stopGhosts, lastFlush>>

\* audio_queue.put(data, timeout=0.1) after the eviction; queue.Full ends in "except: pass"
RecPutAgain(i) ==
    /\ rec[i].pc = "put_again"
    /\ capture_queue' = IF Full(capture_queue, FrameQueueMax) THEN capture_queue
                        ELSE Append(capture_queue, rec[i].data)
    /\ rec' = [rec EXCEPT ![i] = Producer("loop")]
    /\ UNCHANGED <<recording, is_recording_flag, recording_thread, framesRead, openFailedIn,
                   audio_queue, text_queue, bufferVars, pending, caller, aud, guiVars, session,
                   clears, emitted, lastApplied, processed, stopGhosts, lastFlush>>

(***************************************************************************)
(* The program.                                                            *)
(***************************************************************************)
MainThread ==
    \/ StartRecordingNoop
    \/ StartRecording
    \/ ClearAudioQueue
    \/ ClearTextQueue
    \/ SpawnWorkers
    \/ StopRecordingNoop
    \/ StopRecording
    \/ JoinCapture
    \/ JoinWorkers
    \/ ClearText
    \/ RunAfterCallback

\* _finalize_transcription and _send_text_update when no two threads are
\* inside recognizer.Result() at once
RoutineInTurn(t) ==
    \/ GetFinalResult(t)
    \/ ApplyFinal(t)
    \/ ApplyPartial(t)
    \/ SnapshotText(t)
    \/ SnapshotWordCount(t)
    \/ SendPut(t)

Routine(t) ==
    \/ RoutineInTurn(t)
    \/ GetFinalResultTogether(t)

AsrWorker(i) ==
    \/ AsrExit(i)
    \/ AsrIdle(i)
    \/ AsrProcess(i)

AudioWorker(i) ==
    \/ AudStart(i)
    \/ AudExit(i)
    \/ AudIdle(i)
    \/ AudGet(i)
    \/ AudPut(i)
    \/ AudEvict(i)
    \/ AudPutAgain(i)

RecordingWorker(i) ==
    \/ RecOpen(i)
    \/ RecOpenFails(i)
    \/ RecExit(i)
    \/ RecRead(i)
    \/ RecPut(i)
    \/ RecEvict(i)
    \/ RecPutAgain(i)

Next ==
    \/ MainThread
    \/ \E t \in {MAIN} \cup Workers : Routine(t)
    \/ \E i \in Workers : AsrWorker(i)
    \/ \E i \in Workers : AudioWorker(i)
    \/ \E i \in Workers : RecordingWorker(i)
    \/ GuiUpdate

Spec == Init /\ [][Next]_vars

(***************************************************************************)
(* Two sessions, one frame, no clear command: with one frame no queue is   *)
(* ever full, so the eviction branches cannot be reached.  Calls of        *)
(* get_final_result are taken one after the other.                         *)
(***************************************************************************)
InitRestart ==
    /\ Constructed([starts |-> MaxSessions, frames |-> RestartFrames, clears |-> 0,
                    shutdowns |-> 0, calls |-> 0])
    /\ call = NoCall

NextRestart ==
    \/ StartRecordingNoop
    \/ StartRecording
    \/ ClearAudioQueue
    \/ ClearTextQueue
    \/ SpawnWorkers
    \/ StopRecordingNoop
    \/ StopRecording
    \/ JoinCapture
    \/ JoinWorkers
    \/ RunAfterCallback
    \/ \E t \in {MAIN} \cup Workers : RoutineInTurn(t)
    \/ \E i \in Workers : AsrWorker(i)
    \/ \E i \in Workers :
          AudStart(i) \/ AudExit(i) \/ AudIdle(i) \/ AudGet(i) \/ AudPut(i)
    \/ \E i \in Workers :
          RecOpen(i) \/ RecOpenFails(i) \/ RecExit(i) \/ RecRead(i) \/ RecPut(i)
    \/ GuiUpdate

SpecRestart == InitRestart /\ [][NextRestart]_vars

(***************************************************************************)
(* The frame path of one session: capture, the two frame queues, the       *)
(* recognition worker that empties them, and the stop command.             *)
(***************************************************************************)
InitFrames ==
    /\ Started([starts |-> 1, frames |-> PathFrames, clears |-> 0, shutdowns |-> 0, calls |-> 0])
    /\ call = NoCall

NextFrames ==
    \/ StopRecordingNoop
    \/ StopRecording
    \/ JoinCapture
    \/ JoinWorkers
    \/ \E t \in {MAIN} \cup Workers : Routine(t)
    \/ \E i \in Workers : AsrWorker(i)
    \/ \E i \in Workers : AudioWorker(i)
    \/ \E i \in Workers : RecordingWorker(i)

SpecFrames == InitFrames /\ [][NextFrames]_vars

(***************************************************************************)
(* The frame path of one session in which reading from the device and      *)
(* decoding a frame may fail.                                              *)
(***************************************************************************)
InitErrors ==
    /\ Started([starts |-> 1, frames |-> ErrorFrames, clears |-> 0, shutdowns |-> 0, calls |-> 0])
    /\ call = NoCall

NextErrors ==
    \/ NextFrames
    \/ \E i \in Workers : RecReadError(i)
    \/ \E i \in Workers : AsrProcessError(i)

SpecErrors == InitErrors /\ [][NextErrors]_vars

(***************************************************************************)
(* The frame path when the second session starts while the worker threads  *)
(* of the first are still alive: two capture workers and two recognition   *)
(* workers serve the same queues.                                          *)
(***************************************************************************)
InitOverlap ==
    /\ SessionOpen([starts |-> 2, frames |-> OverlapFrames, clears |-> 0, shutdowns |-> 0,
                    calls |-> 0], 2)
    /\ AdapterStarted
    /\ call = NoCall

NextOverlap ==
    \/ \E t \in Workers : ApplyFinal(t) \/ ApplyPartial(t) \/ SnapshotText(t)
                               \/ SnapshotWordCount(t) \/ SendPut(t)
    \/ \E i \in Workers : AsrIdle(i) \/ AsrProcess(i)
    \/ \E i \in Workers : AudStart(i) \/ AudIdle(i) \/ AudGet(i) \/ AudPut(i)
                               \/ AudEvict(i) \/ AudPutAgain(i)
    \/ \E i \in Workers : RecOpen(i) \/ RecOpenFails(i) \/ RecRead(i) \/ RecPut(i)
                               \/ RecEvict(i) \/ RecPutAgain(i)
    \/ GuiUpdate

SpecOverlap == InitOverlap /\ [][NextOverlap]_vars

(***************************************************************************)
(* One session with one frame in which the start command is given again    *)
(* while recording and the stop command while idle, up to GuardCalls       *)
(* times; each such command is recorded in call.                           *)
(***************************************************************************)
\* start_recording() without "if self.recording: return": the flag, the
\* TextBuffer and the queues are reset
StartRecordingAgainClears ==
    /\ caller[MAIN].pc = "idle"
    /\ recording
    /\ call.n < budget.calls
    /\ call' = [call EXCEPT !.op = "start_recording", !.prev = call.op, !.n = call.n + 1]
    /\ final_text' = <<>>
    /\ partial_text' = <<>>
    /\ audio_queue' = <<>>
    /\ text_queue' = <<>>
    /\ UNCHANGED <<recording, captureVars, pending, caller, aud, guiVars, session, clears,
                   emitted, lastApplied, processed, queuedAtStop, bufferedAtStop, lastFlush,
                   timedOut, dropped, budget, lifeVars, adapterVars, lockVars, readErrors,
                   flushAdds>>

\* start_recording() while self.recording is set: "if self.recording: return"
StartRecordingAgain ==
    /\ caller[MAIN].pc = "idle"
    /\ recording
    /\ call.n < budget.calls
    /\ call' = [call EXCEPT !.op = "start_recording", !.prev = call.op, !.n = call.n + 1]
    /\ UNCHANGED <<bufferVars, pipelineVars>>

\* stop_recording() while self.recording is clear: "if not self.recording: return"
StopRecordingIdle ==
    /\ caller[MAIN].pc = "idle"
    /\ ~recording
    /\ call.n < budget.calls
    /\ call' = [call EXCEPT !.op = "stop_recording", !.prev = call.op, !.n = call.n + 1]
    /\ UNCHANGED <<bufferVars, pipelineVars>>

InitGuards ==
    /\ Started([starts |-> 1, frames |-> 1, clears |-> 0, shutdowns |-> 0, calls |-> GuardCalls])
    /\ call = NoCall

NextGuards ==
    \/ StartRecordingAgain
    \/ StopRecordingIdle
    \/ StopRecording
    \/ JoinCapture
    \/ JoinWorkers
    \/ RunAfterCallback
    \/ \E t \in {MAIN} \cup Workers : RoutineInTurn(t)
    \/ \E i \in Workers : AsrWorker(i)
    \/ \E i \in Workers :
          AudStart(i) \/ AudExit(i) \/ AudIdle(i) \/ AudGet(i) \/ AudPut(i)
    \/ \E i \in Workers :
          RecOpen(i) \/ RecOpenFails(i) \/ RecExit(i) \/ RecRead(i) \/ RecPut(i)
    \/ GuiUpdate

SpecGuards == InitGuards /\ [][NextGuards]_vars

(***************************************************************************)
(* The update path of one session: the threads that push updates (the      *)
(* recognition worker, stop_recording, clear_text) and the display.  Calls *)
(* of get_final_result are taken one after the other.                      *)
(***************************************************************************)
InitUpdates ==
    /\ Started([starts |-> 1, frames |-> UpdateFrames, clears |-> UpdateClears,
                shutdowns |-> 0, calls |-> 0])
    /\ call = NoCall

NextUpdates ==
    \/ StartRecordingNoop
    \/ StopRecordingNoop
    \/ StopRecording
    \/ JoinCapture
    \/ JoinWorkers
    \/ ClearText
    \/ RunAfterCallback
    \/ \E t \in {MAIN} \cup Workers : RoutineInTurn(t)
    \/ \E i \in Workers : AsrWorker(i)
    \/ \E i \in Workers :
          AudStart(i) \/ AudExit(i) \/ AudIdle(i) \/ AudGet(i) \/ AudPut(i)
    \/ \E i \in Workers :
          RecOpen(i) \/ RecOpenFails(i) \/ RecExit(i) \/ RecRead(i) \/ RecPut(i)
    \/ GuiUpdate

SpecUpdates == InitUpdates /\ [][NextUpdates]_vars

(***************************************************************************)
(* The life of the application: one session, then shutdown(), from Idle or *)
(* from Recording, and shutdown() once more.                               *)
(***************************************************************************)
InitShutdown ==
    /\ Constructed([starts |-> 1, frames |-> ShutdownFrames, clears |-> 0,
                    shutdowns |-> MaxShutdowns, calls |-> 0])
    /\ call = NoCall

ShutdownThread ==
    \/ Shutdown
    \/ ShutdownJoin
    \/ ShutdownStopCapture
    \/ ShutdownJoinCapture
    \/ ShutdownReset

NextShutdown ==
    \/ StartRecordingNoop
    \/ StartRecording
    \/ ClearAudioQueue
    \/ ClearTextQueue
    \/ SpawnWorkers
    \/ StopRecordingNoop
    \/ StopRecording
    \/ JoinCapture
    \/ JoinWorkers
    \/ RunAfterCallback
    \/ ShutdownThread
    \/ \E t \in {MAIN} \cup Workers : Routine(t)
    \/ \E i \in Workers : AsrWorker(i)
    \/ \E i \in Workers :
          AudStart(i) \/ AudExit(i) \/ AudIdle(i) \/ AudGet(i) \/ AudPut(i)
    \/ \E i \in Workers :
          RecOpen(i) \/ RecOpenFails(i) \/ RecExit(i) \/ RecRead(i) \/ RecPut(i)
    \/ GuiUpdate

SpecShutdown == InitShutdown /\ [][NextShutdown]_vars

(***************************************************************************)
(* Cancellation: sessions that are stopped and started again and one       *)
(* shutdown, while the device delivers no frame, so that the threads only  *)
(* go round their loops.  The worker threads are scheduled fairly: every   *)
(* blocking queue operation of theirs has a timeout, so a thread that can  *)
(* take a step takes it at last, and so does the main thread inside a      *)
(* command.  The commands of the user are under no such condition.         *)
(***************************************************************************)
InitCancel ==
    /\ Constructed([starts |-> MaxSessions, frames |-> 0, clears |-> 0, shutdowns |-> 1,
                    calls |-> 0])
    /\ call = NoCall

NextCancel ==
    \/ StartRecording
    \/ ClearAudioQueue
    \/ ClearTextQueue
    \/ SpawnWorkers
    \/ StopRecording
    \/ JoinCapture
    \/ JoinWorkers
    \/ ShutdownThread
    \/ \E t \in {MAIN} \cup Workers : GetFinalResult(t)
    \/ \E i \in Workers : AsrExit(i) \/ AsrIdle(i)
    \/ \E i \in Workers : AudStart(i) \/ AudExit(i) \/ AudIdle(i)
    \/ \E i \in Workers : RecOpen(i) \/ RecOpenFails(i) \/ RecExit(i)
    \/ GuiExit

\* a command that has begun runs to its end; when the next command is given,
\* if ever, is up to the user
FairWorkers ==
    /\ WF_vars(ClearAudioQueue \/ ClearTextQueue \/ SpawnWorkers \/ JoinCapture \/ JoinWorkers
                  \/ GetFinalResult(MAIN) \/ ShutdownJoin \/ ShutdownStopCapture
                  \/ ShutdownJoinCapture \/ ShutdownReset)
    /\ \A i \in Workers : WF_vars(AsrExit(i) \/ GetFinalResult(i))
    /\ \A i \in Workers : WF_vars(AudStart(i) \/ AudExit(i))
    /\ \A i \in Workers : WF_vars(RecOpen(i) \/ RecOpenFails(i) \/ RecExit(i))
    /\ WF_vars(GuiExit)

SpecCancel == InitCancel /\ [][NextCancel]_vars /\ FairWorkers

(***************************************************************************)
(* The TextBuffer alone, called directly as test_text_buffer() calls it:   *)
(* up to MaxCalls calls of add_partial_text, add_final_text, clear,        *)
(* get_full_text and get_word_count with the texts of BufferInputs.        *)
(***************************************************************************)
Hello == <<"h", "e", "l", "l", "o">>
HelloWorld == <<"h", "e", "l", "l", "o", " ", "w", "o", "r", "l", "d">>
TestSentence == <<"t", "h", "i", "s", " ", "i", "s", " ", "a", " ", "t", "e", "s", "t", ".", " ", "h", "e", "l", "l", "o", " ", "w", "o", "r", "l", "d">>
Untidy == <<" ", "a", " ", " ", "b", "\t">>
BufferInputs == {<<>>, <<" ">>, Hello, HelloWorld, TestSentence, Untidy}

\* add_partial_text that commits the text: final_text += cleaned + " "
CallAddPartialTextCommits ==
    /\ call.op # "format"
    /\ call.n < budget.calls
    /\ \E text \in BufferInputs :
          /\ final_text' = AddFinalText(text)
          /\ partial_text' = AddPartialText(text)
          /\ call' = [op |-> "add_partial", prev |-> call.op, arg |-> text, out |-> <<>>,
                      final0 |-> final_text, partial0 |-> partial_text, n |-> call.n + 1]
    /\ UNCHANGED pipelineVars

\* buffer.add_partial_text(text)
CallAddPartialText ==
    /\ call.op # "format"
    /\ call.n < budget.calls
    /\ \E text \in BufferInputs :
          /\ partial_text' = AddPartialText(text)
          /\ call' = [op |-> "add_partial", prev |-> call.op, arg |-> text, out |-> <<>>,
                      final0 |-> final_text, partial0 |-> partial_text, n |-> call.n + 1]
    /\ UNCHANGED <<final_text, pipelineVars>>

\* buffer.add_final_text(text)
CallAddFinalText ==
    /\ call.op # "format"
    /\ call.n < budget.calls
    /\ \E text \in BufferInputs :
          /\ final_text' = AddFinalText(text)
          /\ partial_text' = PartialAfterFinal(text)
          /\ call' = [op |-> "add_final", prev |-> call.op, arg |-> text, out |-> <<>>,
                      final0 |-> final_text, partial0 |-> partial_text, n |-> call.n + 1]
    /\ UNCHANGED pipelineVars

\* clear() that resets final_text only
CallClearFinalOnly ==
    /\ call.op # "format"
    /\ call.n < budget.calls
    /\ final_text' = <<>>
    /\ call' = [op |-> "clear", prev |-> call.op, arg |-> <<>>, out |-> <<>>,
                final0 |-> final_text, partial0 |-> partial_text, n |-> call.n + 1]
    /\ UNCHANGED <<partial_text, pipelineVars>>

\* buffer.clear()
CallClear ==
    /\ call.op # "format"
    /\ call.n < budget.calls
    /\ final_text' = <<>>
    /\ partial_text' = <<>>
    /\ call' = [op |-> "clear", prev |-> call.op, arg |-> <<>>, out |-> <<>>,
                final0 |-> final_text, partial0 |-> partial_text, n |-> call.n + 1]
    /\ UNCHANGED pipelineVars

\* buffer.get_full_text(): returns the formatted text, changes nothing
CallGetFullText ==
    /\ call.op # "format"
    /\ call.n < budget.calls
    /\ call' = [op |-> "get_full_text", prev |-> call.op, arg |-> <<>>, out |-> GetFullText,
                final0 |-> final_text, partial0 |-> partial_text, n |-> call.n + 1]
    /\ UNCHANGED <<final_text, partial_text, pipelineVars>>

\* buffer.get_word_count(): returns the number of words of final_text, changes nothing
CallGetWordCount ==
    /\ call.op # "format"
    /\ call.n < budget.calls
    /\ call' = [op |-> "get_word_count", prev |-> call.op, arg |-> <<>>, out |-> <<>>,
                final0 |-> final_text, partial0 |-> partial_text, n |-> call.n + 1,
                count |-> GetWordCount]
    /\ UNCHANGED <<final_text, partial_text, pipelineVars>>

InitBuffer ==
    /\ Constructed([starts |-> 0, frames |-> 0, clears |-> 0, shutdowns |-> 0,
                    calls |-> MaxCalls])
    /\ call = NoCall

NextBuffer ==
    \/ CallAddPartialText
    \/ CallAddFinalText
    \/ CallClear
    \/ CallGetFullText
    \/ CallGetWordCount

SpecBuffer == InitBuffer /\ [][NextBuffer]_vars

(***************************************************************************)
(* _format_text alone: applied to a string of at most MaxLen characters of *)
(* FormatAlphabet, and then to its own result.                             *)
(***************************************************************************)
FormatAlphabet == {"a", "B", " ", ".", "!", "?"}
FormatInputs == UNION {[1..k -> FormatAlphabet] : k \in 0..MaxLen}

\* out = self._format_text(arg); the second call formats the result of the first
CallFormatText ==
    /\ call.n < budget.calls
    /\ call' = [call EXCEPT !.op = "format", !.prev = call.op,
                            !.arg = IF call.op = "format" THEN call.out ELSE call.arg,
                            !.out = FormatText(IF call.op = "format" THEN call.out ELSE call.arg),
                            !.n = call.n + 1]
    /\ UNCHANGED <<final_text, partial_text, pipelineVars>>

InitFormat ==
    /\ Constructed([starts |-> 0, frames |-> 0, clears |-> 0, shutdowns |-> 0, calls |-> 2])
    /\ \E text \in FormatInputs : call = [NoCall EXCEPT !.arg = text]

NextFormat == CallFormatText

SpecFormat == InitFormat /\ [][NextFormat]_vars

(***************************************************************************)
(* The VoskEngine alone, called directly and by one thread as               *)
(* test_vosk_engine() and test_integration.py call it: up to AdapterCalls  *)
(* calls of start, reset, process_audio and get_final_result.              *)
(***************************************************************************)
\* no VoskEngine method has been called; res is how the last call ended
\* ("ok", "no_result": returned without asking the recognizer, "error": raised),
\* out the text it returned, active0 and handle0 are is_active and recognizer
\* before the call
NoEngineCall == [op |-> "none", prev |-> "none", res |-> "none", out |-> <<>>,
                 active0 |-> FALSE, handle0 |-> 0, n |-> 0]

EngineCall(op, res, out) ==
    [op |-> op, prev |-> call.op, res |-> res, out |-> out,
     active0 |-> is_active, handle0 |-> recognizer, n |-> call.n + 1]

besideAdapter == <<recording, captureVars, audio_queue, text_queue, bufferVars, caller, aud,
                   guiVars, session, clears, emitted, lastApplied, processed, queuedAtStop,
                   bufferedAtStop, lastFlush, timedOut, dropped, budget, shutdown_event,
                   shutdowns, wasRecording, discarded, heldAtReset, lockVars, readErrors,
                   flushAdds>>

\* start() that keeps the recognizer it already has
CallStartKeepsRecognizer ==
    /\ call.n < budget.calls
    /\ IF ~model_loaded
       THEN /\ call' = EngineCall("start", "error", <<>>)
            /\ UNCHANGED <<recognizer, allocated, is_active, pending>>
       ELSE /\ recognizer' = IF recognizer # 0 THEN recognizer ELSE allocated + 1
            /\ allocated' = IF recognizer # 0 THEN allocated ELSE allocated + 1
            /\ is_active' = TRUE
            /\ UNCHANGED pending
            /\ call' = EngineCall("start", "ok", <<>>)
    /\ UNCHANGED <<model_loaded, besideAdapter>>

\* start(): raises RuntimeError without a model; else drops the recognizer it
\* has (reset()) and creates a KaldiRecognizer, which has heard nothing
CallStart ==
    /\ call.n < budget.calls
    /\ IF ~model_loaded
       THEN /\ call' = EngineCall("start", "error", <<>>)
            /\ UNCHANGED <<recognizer, allocated, is_active, pending>>
       ELSE /\ recognizer' = allocated + 1
            /\ allocated' = allocated + 1
            /\ is_active' = TRUE
            /\ pending' = <<>>
            /\ call' = EngineCall("start", "ok", <<>>)
    /\ UNCHANGED <<model_loaded, besideAdapter>>

\* reset(): self.recognizer = None; self.is_active = False
CallReset ==
    /\ call.n < budget.calls
    /\ recognizer' = 0
    /\ is_active' = FALSE
    /\ pending' = <<>>
    /\ call' = EngineCall("reset", "ok", <<>>)
    /\ UNCHANGED <<model_loaded, allocated, besideAdapter>>

\* process_audio(chunk): {'partial': None, 'final': None} at once when the
\* engine is inactive or has no recognizer, else the result of the recognizer
CallProcessAudio ==
    /\ call.n < budget.calls
    /\ IF ~is_active \/ recognizer = 0
       THEN /\ call' = EngineCall("process_audio", "no_result", <<>>)
            /\ UNCHANGED pending
       ELSE \E o \in {"partial", "final", "silence"} :
               /\ pending' = PendingAfter([id |-> call.n + 1, sess |-> 0], o)
               /\ call' = EngineCall("process_audio", "ok",
                                     ResultText([id |-> call.n + 1, sess |-> 0], o))
    /\ UNCHANGED <<recognizer, is_active, model_loaded, allocated, besideAdapter>>

\* get_final_result(): "" at once when the engine is inactive or has no
\* recognizer, else the text of recognizer.Result()
CallGetFinalResult ==
    /\ call.n < budget.calls
    /\ IF ~is_active \/ recognizer = 0
       THEN /\ call' = EngineCall("get_final_result", "no_result", <<>>)
            /\ UNCHANGED pending
       ELSE /\ pending' = <<>>
            /\ call' = EngineCall("get_final_result", "ok", Strip(pending))
    /\ UNCHANGED <<recognizer, is_active, model_loaded, allocated, besideAdapter>>

\* the VoskEngine as lines 29-32 of __init__ set it; _load_model() then gives
\* it a model, and without one (model is None) only the guard of start() is of
\* interest
InitAdapter ==
    /\ Assembled([starts |-> 0, frames |-> 0, clears |-> 0, shutdowns |-> 0,
                  calls |-> AdapterCalls])
    /\ is_active = FALSE
    /\ recognizer = 0
    /\ allocated = 0
    /\ model_loaded \in BOOLEAN
    /\ call = NoEngineCall

NextAdapter ==
    \/ CallStart
    \/ CallReset
    \/ CallProcessAudio
    \/ CallGetFinalResult

SpecAdapter == InitAdapter /\ [][NextAdapter]_vars

(***************************************************************************)
(* The TextBuffer called by several threads at once, statement by          *)
(* statement: up to LockCalls calls of add_partial_text, add_final_text,   *)
(* clear, get_full_text and get_word_count by LockThreads threads (the     *)
(* main thread and recognition threads), with the texts of LockInputs.     *)
(***************************************************************************)
LockUsers == {t \in {MAIN} \cup Workers : t < LockThreads}
LockInputs == {<<>>, <<"a">>, <<"b", " ", "c">>}
Writers == {"add_partial_text", "add_final_text", "clear"}
Readers == {"get_full_text", "get_word_count"}

besideLock == <<recording, captureVars, audio_queue, text_queue, pending, caller, aud,
                guiVars, session, clears, emitted, lastApplied, processed, queuedAtStop,
                bufferedAtStop, lastFlush, timedOut, dropped, budget, lifeVars,
                adapterVars, readErrors, flushAdds>>

\* thread t calls a TextBuffer method and arrives at its "with self.lock:"
Enter(t) ==
    /\ meth[t].pc = "out"
    /\ call.n < budget.calls
    /\ \E op \in Writers \cup Readers :
          \E text \in (IF op \in {"add_partial_text", "add_final_text"} THEN LockInputs ELSE {<<>>}) :
             meth' = [meth EXCEPT ![t] = [op |-> op, pc |-> "enter", arg |-> text,
                                         seen |-> <<>>, torn |-> FALSE]]
    /\ call' = [call EXCEPT !.n = call.n + 1]
    /\ UNCHANGED <<final_text, partial_text, lock, stable, besideLock>>

\* "with self.lock:" that does not wait for the lock
AcquireAnyway(t) ==
    /\ meth[t].pc = "enter"
    /\ lock' = lock \cup {t}
    /\ meth' = [meth EXCEPT ![t].pc = "body"]
    /\ UNCHANGED <<final_text, partial_text, stable, call, besideLock>>

\* "with self.lock:" entered: the lock was free
Acquire(t) ==
    /\ meth[t].pc = "enter"
    /\ lock = {}
    /\ lock' = lock \cup {t}
    /\ meth' = [meth EXCEPT ![t].pc = "body"]
    /\ UNCHANGED <<final_text, partial_text, stable, call, besideLock>>

\* add_partial_text: self.partial_text = cleaned, or ""
PartialAssign(t) ==
    /\ meth[t].pc = "body"
    /\ meth[t].op = "add_partial_text"
    /\ partial_text' = AddPartialText(meth[t].arg)
    /\ meth' = [meth EXCEPT ![t].pc = "leave"]
    /\ UNCHANGED <<final_text, lock, stable, call, besideLock>>

\* add_final_text with an empty text: the body of "if text:" is skipped
FinalSkip(t) ==
    /\ meth[t].pc = "body"
    /\ meth[t].op = "add_final_text"
    /\ meth[t].arg = <<>>
    /\ meth' = [meth EXCEPT ![t].pc = "leave"]
    /\ UNCHANGED <<final_text, partial_text, lock, stable, call, besideLock>>

\* add_final_text: self.final_text += cleaned + " "
FinalAppend(t) ==
    /\ meth[t].pc = "body"
    /\ meth[t].op = "add_final_text"
    /\ meth[t].arg # <<>>
    /\ final_text' = AddFinalText(meth[t].arg)
    /\ meth' = [u \in DOMAIN meth |->
                   IF u = t THEN [meth[u] EXCEPT !.pc = "second"]
                   ELSE IF meth[u].pc = "enter" THEN [meth[u] EXCEPT !.torn = TRUE]
                   ELSE meth[u]]
    /\ UNCHANGED <<partial_text, lock, stable, call, besideLock>>

\* clear: self.final_text = ""
ClearFinal(t) ==
    /\ meth[t].pc = "body"
    /\ meth[t].op = "clear"
    /\ final_text' = <<>>
    /\ meth' = [u \in DOMAIN meth |->
                   IF u = t THEN [meth[u] EXCEPT !.pc = "second"]
                   ELSE IF meth[u].pc = "enter" THEN [meth[u] EXCEPT !.torn = TRUE]
                   ELSE meth[u]]
    /\ UNCHANGED <<partial_text, lock, stable, call, besideLock>>

\* add_final_text and clear: self.partial_text = ""
PartialReset(t) ==
    /\ meth[t].pc = "second"
    /\ partial_text' = <<>>
    /\ meth' = [meth EXCEPT ![t].pc = "leave"]
    /\ UNCHANGED <<final_text, lock, stable, call, besideLock>>

\* get_full_text and get_word_count: the return expression reads the buffer
ReadBuffer(t) ==
    /\ meth[t].pc = "body"
    /\ meth[t].op \in Readers
    /\ meth' = [meth EXCEPT ![t].pc = "leave",
                            ![t].seen = IF meth[t].op = "get_word_count"
                                        THEN <<final_text>>
                                        ELSE <<final_text, partial_text>>]
    /\ UNCHANGED <<final_text, partial_text, lock, stable, call, besideLock>>

\* the end of the "with" block: the lock is released and the method returns
Leave(t) ==
    /\ meth[t].pc = "leave"
    /\ lock' = lock \ {t}
    /\ stable' = IF meth[t].op \in Writers THEN <<final_text, partial_text>> ELSE stable
    /\ meth' = [meth EXCEPT ![t].pc = "out"]
    /\ UNCHANGED <<final_text, partial_text, call, besideLock>>

InitLock ==
    /\ Constructed([starts |-> 0, frames |-> 0, clears |-> 0, shutdowns |-> 0,
                    calls |-> LockCalls])
    /\ call = NoCall

NextLock ==
    \E t \in LockUsers :
       \/ Enter(t)
       \/ Acquire(t)
       \/ PartialAssign(t)
       \/ FinalSkip(t)
       \/ FinalAppend(t)
       \/ ClearFinal(t)
       \/ PartialReset(t)
       \/ ReadBuffer(t)
       \/ Leave(t)

SpecLock == InitLock /\ [][NextLock]_vars



(***************************************************************************)
(* Properties.                                                             *)
(***************************************************************************)
\* stop_recording() has returned and no start_recording() has followed
StopReturned == caller[MAIN].pc = "idle" /\ ~recording /\ session >= 1
\* stop_recording() has made its call of get_final_result
StopHasFlushed ==
    ~recording /\ session >= 1 /\ caller[MAIN].pc \notin {"join_capture", "join", "fin_get"}
\* ids of the frames passed to process_audio so far
ProcessedIds == {processed[k].id : k \in 1..Len(processed)}
\* thread i is inside the loop of its thread function
InLoopAsr(i) == caller[i].pc = "loop" \/ caller[i].ret = "loop"
InLoopAud(i) == aud[i].pc \in {"loop", "put", "evict", "put_again"}
InLoopRec(i) == rec[i].pc \in {"loop", "put", "evict", "put_again"}

\* C1: when stop_recording() was called with unconfirmed text buffered in the
\* recognizer and has returned, the non-empty text get_final_result returned
\* is part of get_full_text() (compared up to capitalization), until the next
\* clear or start.
C1_NoLossAtSessionEnd ==
    (StopReturned /\ bufferedAtStop /\ lastFlush # <<>>)
        => Contains(CaseFold(GetFullText), CaseFold(lastFlush))

\* C2: once stop_recording() has called get_final_result, every frame that was
\* in audio_queue when stop_recording() was called has been passed to
\* process_audio.
C2_QueuedFramesDrained == StopHasFlushed => queuedAtStop \subseteq ProcessedIds

\* C3: no frame delivered before the current start_recording() is passed to
\* process_audio, and once start_recording() has returned the update queue
\* holds no update taken in an earlier session.
C3_NoStaleData ==
    /\ \A k \in 1..Len(processed) : processed[k].sess >= processed[k].at
    /\ (caller[MAIN].pc = "idle" /\ recording)
          => \A k \in 1..Len(text_queue) : text_queue[k].sess >= session

\* C4: when opening the device has failed in the current session, the
\* coordinator is not recording and the capture component is not marked as
\* recording.
C4_DeviceFailureLeavesIdle ==
    (openFailedIn # 0 /\ openFailedIn = session) => (~recording /\ ~is_recording_flag)

\* C5: at most one recognition worker, at most one _audio_capture_worker and at
\* most one _recording_worker are inside their loops.
C5_NoConcurrentSessions ==
    /\ Cardinality({i \in Workers : InLoopAsr(i)}) <= 1
    /\ Cardinality({i \in Workers : InLoopAud(i)}) <= 1
    /\ Cardinality({i \in Workers : InLoopRec(i)}) <= 1

\* C6: within a session the hypotheses are applied to the TextBuffer in the
\* order the recognizer returned them: the sequence number of the hypothesis
\* applied last never decreases.
C6_AppliedInEmissionOrder ==
    [][lastApplied'.sess = lastApplied.sess => lastApplied'.seq >= lastApplied.seq]_vars

\* C7: when stop_recording() has returned, every worker of the session has
\* ended and the update queue and the scheduled callbacks are drained, the
\* display shows get_full_text().
C7_FinalStateDisplayed ==
    (/\ StopReturned
     /\ \A i \in Workers : ~AliveAsr(i) /\ ~AliveAud(i)
     /\ text_queue = <<>>
     /\ after_queue = <<>>)
        => display = GetFullText

\* C8: a push that found the frame queue full ends with the pushed frame as
\* the newest element of the queue, for both frame queues.
C8_PushedFrameIsKept ==
    [][\A i \in Workers :
          /\ (aud[i].pc \in {"evict", "put_again"} /\ aud'[i].pc = "loop")
                => (audio_queue' # <<>> /\ audio_queue'[Len(audio_queue')] = aud[i].data)
          /\ (rec[i].pc \in {"evict", "put_again"} /\ rec'[i].pc = "loop")
                => (capture_queue' # <<>> /\ capture_queue'[Len(capture_queue')] = rec[i].data)
      ]_vars

\* C9: neither frame queue ever holds more frames than its capacity.
C9_QueueBoundsHold ==
    /\ Len(audio_queue) <= FrameQueueMax
    /\ Len(capture_queue) <= FrameQueueMax
\* both frame queues are at capacity and the capture thread has found its queue full
C9_Witness ==
    /\ Len(audio_queue) = FrameQueueMax
    /\ Len(capture_queue) = FrameQueueMax
    /\ \E i \in Workers : rec[i].pc = "evict"

\* C10: the step in which a thread leaves text_queue.put with the queue full
\* leaves the queue and the TextBuffer as they were, and the thread goes on
\* where _send_text_update returns to.
C10_FullUpdateQueueDropsPushed ==
    [][\A t \in {MAIN} \cup Workers :
          (caller[t].pc = "put" /\ caller'[t].pc # "put" /\ Full(text_queue, TextQueueMax))
             => /\ text_queue' = text_queue
                /\ final_text' = final_text
                /\ partial_text' = partial_text
                /\ caller'[t].pc = caller[t].ret
      ]_vars
\* an update has been given up on a full queue, and the queue is still full
C10_Witness == dropped > 0 /\ Full(text_queue, TextQueueMax)

\* C11: after any add_final_text(text), a call with empty text included,
\* partial_text is empty.
C11_FinalClearsPartial == call.op = "add_final" => partial_text = <<>>

\* C12: after add_partial_text(p) followed by add_final_text(f) with f
\* non-empty: partial_text is empty, final_text has grown by exactly the
\* cleaned f and one space, get_full_text() is the formatted previous
\* final_text with the cleaned f appended, and it contains the cleaned f
\* (compared up to capitalization).
C12_FinalSupersedesPartial ==
    (call.op = "add_final" /\ call.prev = "add_partial" /\ call.arg # <<>>)
        => /\ partial_text = <<>>
           /\ final_text = call.final0 \o CleanText(call.arg) \o <<" ">>
           /\ GetFullText = FormatText(Strip(call.final0 \o CleanText(call.arg)))
           /\ Contains(CaseFold(GetFullText), CaseFold(CleanText(call.arg)))
\* a final with non-empty text has replaced a non-empty partial on top of earlier final text
C12_Witness ==
    /\ call.op = "add_final" /\ call.prev = "add_partial"
    /\ call.arg = Hello /\ call.partial0 = HelloWorld /\ call.final0 # <<>>

\* C13: after add_partial_text, whatever the text and the state before it,
\* final_text and get_word_count() are what they were before the call; when
\* get_word_count() differs from its value before the last call, that call
\* was add_final_text or clear.
C13_PartialLeavesFinal ==
    /\ call.op = "add_partial"
          => (final_text = call.final0 /\ GetWordCount = WordCount(call.final0))
    /\ GetWordCount # WordCount(call.final0) => call.op \in {"add_final", "clear"}
\* a non-empty partial was set on top of counted final text
C13_Witness ==
    /\ call.op = "add_partial" /\ call.arg = HelloWorld
    /\ partial_text = HelloWorld /\ GetWordCount = 2

\* C14: after clear(), in whatever state it was called, get_full_text() is
\* empty and get_word_count() is 0.
C14_ClearIsTotal == call.op = "clear" => (GetFullText = <<>> /\ GetWordCount = 0)
\* clear() was called with both final and partial text present
C14_Witness == call.op = "clear" /\ call.final0 # <<>> /\ call.partial0 # <<>>

\* the state after add_final_text("this is a test. hello world") called with
\* final_text "hello world " and no partial
AfterTestSentence ==
    /\ call.op = "add_final" /\ call.arg = TestSentence
    /\ call.final0 = HelloWorld \o <<" ">> /\ call.partial0 = <<>>

\* C15: from final text "hello world", add_final_text("this is a test. hello
\* world") gives get_full_text() "Hello world This is a test. Hello world"
\* and get_word_count() 7.
C15_ScenarioAsStated ==
    AfterTestSentence
        => /\ GetFullText = <<"H", "e", "l", "l", "o", " ", "w", "o", "r", "l", "d", " ", "T", "h", "i", "s", " ", "i", "s", " ", "a", " ", "t", "e", "s", "t", ".", " ", "H", "e", "l", "l", "o", " ", "w", "o", "r", "l", "d">>
           /\ GetWordCount = 7
\* C15, amended: the same call gives get_full_text() "Hello world this is a
\* test. Hello world" (only the first letter and the letter after the full
\* stop are capitalized) and get_word_count() 8.
C15_ScenarioAsComputed ==
    AfterTestSentence
        => /\ GetFullText = <<"H", "e", "l", "l", "o", " ", "w", "o", "r", "l", "d", " ", "t", "h", "i", "s", " ", "i", "s", " ", "a", " ", "t", "e", "s", "t", ".", " ", "H", "e", "l", "l", "o", " ", "w", "o", "r", "l", "d">>
           /\ GetWordCount = 8
\* the scenario's call has been made
C15_Witness == AfterTestSentence /\ call.prev = "add_final" /\ call.n = 2

\* C16: from an empty buffer add_partial_text("hello") gives get_full_text()
\* "Hello"; then add_partial_text("hello world") gives "Hello world"; then
\* add_final_text("hello world") gives "Hello world" and get_word_count() 2.
C16_PartialThenFinalShownOnce ==
    /\ (call.op = "add_partial" /\ call.arg = Hello /\ call.final0 = <<>>)
          => GetFullText = <<"H", "e", "l", "l", "o">>
    /\ (call.op = "add_partial" /\ call.arg = HelloWorld /\ call.final0 = <<>>)
          => GetFullText = <<"H", "e", "l", "l", "o", " ", "w", "o", "r", "l", "d">>
    /\ (call.op = "add_final" /\ call.arg = HelloWorld /\ call.final0 = <<>>
            /\ call.partial0 = HelloWorld)
          => (GetFullText = <<"H", "e", "l", "l", "o", " ", "w", "o", "r", "l", "d">> /\ GetWordCount = 2)
\* the three calls of the scenario have been made, in this order
C16_Witness ==
    /\ call.op = "add_final" /\ call.prev = "add_partial" /\ call.n = 3
    /\ call.arg = HelloWorld /\ call.final0 = <<>> /\ call.partial0 = HelloWorld

\* C17: _format_text applied to a result of _format_text returns it unchanged.
C17_FormatIdempotent == (call.op = "format" /\ call.prev = "format") => call.out = call.arg
\* _format_text has been applied twice to "a. a"
C17_Witness ==
    call.op = "format" /\ call.prev = "format" /\ call.arg = <<"A", ".", " ", "A">>

\* C18: clear_text is accepted whether recording or not; its clear() step
\* empties the TextBuffer and leaves the recording flag, the worker threads
\* and the frame queues as they were, and the update it then hands to
\* text_queue.put is a clear update with empty text, enqueued unless the
\* queue is full.
C18_ClearIsAFrameEffect ==
    [][/\ (caller[MAIN].pc = "idle" /\ caller'[MAIN].upd.kind = "clear")
            => /\ final_text' = <<>> /\ partial_text' = <<>>
               /\ recording' = recording
               /\ \A i \in Workers : caller'[i] = caller[i]
               /\ aud' = aud /\ rec' = rec
               /\ audio_queue' = audio_queue /\ capture_queue' = capture_queue
       /\ (caller[MAIN].pc = "put" /\ caller[MAIN].upd.kind = "clear" /\ caller'[MAIN].pc # "put")
            => /\ caller[MAIN].upd.text = <<>>
               /\ ~Full(text_queue, TextQueueMax)
                     => text_queue' = Append(text_queue, caller[MAIN].upd)
               /\ recording' = recording
               /\ caller'[MAIN].pc = "idle"
      ]_vars
\* clear_text was called while recording and has returned, and its clear
\* update is in the update queue
C18_Witness ==
    /\ recording /\ clears > 0 /\ caller[MAIN].pc = "idle"
    /\ \E k \in 1..Len(text_queue) : text_queue[k].kind = "clear" /\ text_queue[k].text = <<>>
\* shutdown() has returned
ShutdownReturned == caller[MAIN].pc = "down"

\* C19: when shutdown() was called while recording and has returned, capture
\* is halted and the text the recognizer held has been added to the
\* TextBuffer before reset(): reset() dropped no text, and no thread held a
\* flushed text that was not yet in the TextBuffer.
C19_ShutdownStopsAndFlushes ==
    (ShutdownReturned /\ wasRecording)
        => (~is_recording_flag /\ discarded = <<>> /\ ~heldAtReset)

\* C20: whenever shutdown() has returned, after the first call and after the
\* second, from Idle and from Recording, recording is clear, shutdown_event
\* is set, the capture component is not marked as recording and the
\* recognizer is inactive.
C20_ShutdownEndState ==
    ShutdownReturned
        => (~recording /\ shutdown_event /\ ~is_recording_flag /\ ~is_active)

\* C25: every frame passed to an active recognizer yields a hypothesis, and
\* the worker goes on to apply it to the TextBuffer (and then to push an
\* update), also when its text is empty.
C25_EveryHypothesisApplied ==
    [][(Len(processed') > Len(processed) /\ is_active)
          => \E i \in Workers :
                caller[i].pc = "loop" /\ caller'[i].pc \in {"add_partial", "add_final"}
      ]_vars

\* C26: whenever stop_recording() has returned and no start_recording() has
\* followed, the capture component is not marked as recording.
C26_CaptureStoppedAfterStop == StopReturned => ~is_recording_flag

\* no thread is between a change of the TextBuffer and the end of its push
NoUpdateInHand == \A t \in {MAIN} \cup Workers : caller[t].pc \notin {"add_partial", "add_final", "snap_text", "snap_wc", "put"}

\* C27: when no update was ever dropped, no thread has an update in hand, the
\* update queue and the scheduled callbacks are drained and the TextBuffer is
\* empty after a clear_text, the display is empty.
C27_NoPreClearTextAfterClear ==
    (/\ clears > 0 /\ dropped = 0
     /\ NoUpdateInHand
     /\ text_queue = <<>> /\ after_queue = <<>>
     /\ final_text = <<>> /\ partial_text = <<>>)
        => display = <<>>

\* C28: the word_count of every update in the update queue is the
\* get_word_count() of the buffer state its text was taken from.
C28_UpdateIsOneSnapshot == \A k \in 1..Len(text_queue) : text_queue[k].wc = text_queue[k].wc0

C21_ReadsSeeCompleteOperations ==
    [][\A t \in LockUsers :
          (meth[t].op \in Readers /\ meth[t].pc = "body" /\ meth'[t].pc = "leave")
             => /\ <<final_text, partial_text>> = stable
                /\ lock = {t}
                /\ meth'[t].seen = IF meth[t].op = "get_word_count"
                                   THEN <<stable[1]>> ELSE stable]_vars

\* a reader that waited while add_final_text stood between its two
\* assignments has read the buffer with the final text in it
C21_Witness ==
    \E t \in LockUsers :
       /\ meth[t].op = "get_full_text"
       /\ meth[t].pc = "leave"
       /\ meth[t].torn
       /\ meth[t].seen = <<<<"a", " ">>, <<>>>>

\* C22: a read that raises leaves the recording thread in its loop and a
\* decoding that raises leaves the recognition thread in its loop, neither
\* changes the TextBuffer, and no recording thread has ended while the
\* capture flag is set nor has the recognition thread of the session left its
\* loop while the session is recording.
C22_ErrorsSkipTheIteration ==
    /\ [][/\ readErrors' > readErrors
             => /\ rec' = rec
                /\ \E i \in Workers : rec[i].pc = "loop"
                /\ bufferVars' = bufferVars
          /\ (Len(processed') > Len(processed) /\ processed'[Len(processed')].err)
             => /\ caller' = caller
                /\ \E i \in Workers : caller[i].pc = "loop"
                /\ bufferVars' = bufferVars]_vars
    /\ [](\A i \in Workers : rec[i].pc = "dead" => ~is_recording_flag)
    /\ []((recording /\ ~shutdown_event) => InLoopAsr(session))

\* a read has failed, the first frame read after it failed in decoding, and the
\* frame after that was decoded and its text applied
C22_Witness ==
    /\ readErrors = 1
    /\ Len(processed) = 2
    /\ processed[1].err /\ ~processed[2].err
    /\ processed[2].id = 2
    /\ recording
    /\ final_text # <<>> \/ partial_text # <<>>

\* C23: a process_audio or get_final_result call made while the engine is
\* inactive or has no recognizer (before start() or after reset()) ends with
\* an error for the caller, not with an empty result.
C23_InactiveCallReported ==
    (call.op \in {"process_audio", "get_final_result"} /\ (~call.active0 \/ call.handle0 = 0))
       => call.res = "error"

\* C24: after start() with a model the engine has a recognizer created by this
\* call (not the one it had, nor any earlier one, and with nothing heard) and
\* is_recognizing() is true, whatever the state before; after reset() it has
\* no recognizer and is_recognizing() is false, also when the call before was
\* a reset(); start() without a model raises and leaves the engine inactive
\* and without recognizer.
C24_Restartable ==
    /\ (call.op = "start" /\ model_loaded)
          => /\ call.res = "ok"
             /\ recognizer # 0
             /\ recognizer # call.handle0
             /\ recognizer = allocated
             /\ pending = <<>>
             /\ is_active
    /\ call.op = "reset" => (call.res = "ok" /\ recognizer = 0 /\ ~is_active)
    /\ (call.op = "start" /\ ~model_loaded)
          => (call.res = "error" /\ recognizer = 0 /\ ~is_active)

\* start() on an engine that is active with its second recognizer, right
\* after a process_audio call
C24_Witness ==
    /\ call.op = "start"
    /\ call.active0
    /\ call.handle0 = 2
    /\ recognizer = 3
    /\ call.prev = "process_audio"

\* C30: the frames passed to process_audio are in capture order and each
\* at most once: the numbers of the processed frames increase strictly.
C30_FramesInCaptureOrder ==
    \A j, k \in 1..Len(processed) : j < k => processed[j].id < processed[k].id

\* C33: when the callback scheduled for an update has run, so that the update
\* is shown, gui.word_count is the word_count of that update.
C33_DisplayCountIsUpdateCount ==
    [][Len(after_queue') < Len(after_queue) => gui_word_count' = Head(after_queue).wc]_vars

\* C34: a start_recording() call made while recording changes neither the
\* TextBuffer, the queues, the threads nor anything else, and a
\* stop_recording() call made while idle asks the recognizer for no result,
\* pushes no update and changes neither the TextBuffer nor anything else.
C34_GuardedCommandsAreNoOps ==
    [][call'.n > call.n
          => /\ call'.op = "start_recording" <=> recording
             /\ call'.op = "stop_recording" <=> ~recording
             /\ bufferVars' = bufferVars
             /\ <<audio_queue, capture_queue, text_queue>>' = <<audio_queue, capture_queue, text_queue>>
             /\ <<caller, aud, rec, recording_thread>>' = <<caller, aud, rec, recording_thread>>
             /\ <<pending, emitted, lastFlush>>' = <<pending, emitted, lastFlush>>
             /\ pipelineVars' = pipelineVars]_vars

\* start_recording() was called while the session was recording with text in
\* the TextBuffer, and later stop_recording() while idle, the text still there
C34_Witness ==
    /\ call.op = "stop_recording"
    /\ call.prev = "start_recording"
    /\ ~recording
    /\ caller[MAIN].pc = "idle"
    /\ final_text # <<>>

IsPrefix(a, b) == Len(a) <= Len(b) /\ SubSeq(b, 1, Len(a)) = a

\* C32: after a call of add_partial_text, add_final_text, get_full_text or
\* get_word_count the final_text of before the call is a prefix of final_text
\* (the two getters and add_partial_text leave it as it was); final_text is
\* shorter than before only after clear().
C32_FinalTextAppendOnly ==
    /\ call.op \in {"add_partial", "add_final", "get_full_text", "get_word_count"}
          => IsPrefix(call.final0, final_text)
    /\ call.op \in {"add_partial", "get_full_text", "get_word_count"}
          => final_text = call.final0
    /\ Len(final_text) < Len(call.final0) => call.op = "clear"

\* add_final_text has extended a non-empty final_text, right after a getter
C32_Witness ==
    /\ call.op = "add_final"
    /\ call.prev \in {"get_full_text", "get_word_count"}
    /\ call.final0 # <<>>
    /\ Len(final_text) > Len(call.final0)

\* C31: once the recording flag of session i has been cleared, the recognition
\* thread and the capture thread of that session leave their loops at last,
\* and once shutdown() has set shutdown_event the _gui_update_worker thread
\* ends at last.
C31_WorkersExitAfterStop ==
    /\ \A i \in Workers :
          (session = i /\ ~recording /\ caller[i].pc # "unborn")
             ~> (~InLoopAsr(i) /\ aud[i].pc \in {"dead"})
    /\ shutdown_event ~> (gui_thread = "dead")

====
